---- MODULE Spec2Model ----
(***************************************************************************)
(* Bill-history date/status classifiers of the legislative scrapers.       *)
(*                                                                         *)
(* Text is modelled as a sequence of tokens: a token is a maximal run of   *)
(* letters/digits ("Passed", "15", "2023"), one punctuation character      *)
(* (",", ";", "/") or one whitespace character (" ", "\t").  A date string *)
(* is a token sequence as well ("1/15/2023" is <<"1","/","15","/","2023">>)*)
(* and the empty string is <<>>.  Eight-digit YYYYMMDD values and bill     *)
(* numbers are sequences of one-character strings, because the code slices *)
(* them by character.  History rows have a date cell and one action cell.  *)
(***************************************************************************)
EXTENDS Integers, Sequences, FiniteSets, TLC

VARIABLES
    billno,       \* the bill identifier, as characters
    page,         \* the fetched page: [kind, trs]
    pc,           \* position in the running function
    rows,         \* the (date_cell, action) rows extracted from the page
    i,            \* loop index over the history rows
    out,          \* the record parse_bill_history_fields builds
    cosponsors,   \* its accumulated cosponsor names
    date,         \* the loop-local date of the row scanned last
    pw,           \* locals and result of parse_dates_with_playwright
    href,         \* input of _date_from_href_str
    recovered,    \* its result
    parser,       \* the classifier a caller invokes: "html" or "playwright"
    todo,         \* the (parser, billno, page) calls a process still makes
    calls,        \* the calls it has made, each with the record returned
    scraper,      \* the script whose main() runs
    sessions,     \* the link lists of the GAs / sessions not yet enumerated
    ga,           \* the GA / session number of the running iteration
    ga_links,     \* the links of that GA not yet visited
    seen_bills,   \* main()'s set of seen keys
    collected,    \* main()'s list "rows"
    phase,        \* position in main()
    csv,          \* the rows written to the CSV file
    failed_urls,  \* the urls check_bill_exists gave up on (self.failed_urls)
    arg,          \* argument of a function applied on its own
    result        \* its result

callervars == <<parser, todo, calls>>
mainvars == <<scraper, sessions, ga, ga_links, seen_bills, collected, phase, csv, failed_urls>>
purevars == <<arg, result>>

vars ==
    <<billno, page, pc, rows, i, out, cosponsors, date, pw, href, recovered,
      callervars, mainvars, purevars>>

(***************************************************************************)
(* Bounds of the model.                                                    *)
(***************************************************************************)
MaxRows == 2
MaxCalls == 3
MaxLines == 3
MaxGA == 2
MaxLinks == 2
MaxIdLen == 4
MaxDocnum == 7
MaxStop == 2
MaxRetries == 3

(***************************************************************************)
(* Character and token helpers.                                            *)
(***************************************************************************)
IsWS(t) == t \in {" ", "\t"}

\* str.lower() on the tokens of the vocabulary
Lower(t) ==
    CASE t \in {"Introduced", "INTRODUCED"} -> "introduced"
      [] t = "Reintroduced" -> "reintroduced"
      [] t \in {"Passed", "PASSED"} -> "passed"
      [] t \in {"House", "HOUSE"} -> "house"
      [] t \in {"Senate", "SENATE"} -> "senate"
      [] t = "Signed" -> "signed"
      [] t = "Approved" -> "approved"
      [] t = "By" -> "by"
      [] t = "Governor" -> "governor"
      [] t = "Withdrawn" -> "withdrawn"
      [] t = "Died" -> "died"
      [] t = "In" -> "in"
      [] t = "Failed" -> "failed"
      [] t = "Vetoed" -> "vetoed"
      [] t = "The" -> "the"
      [] t = "Effective" -> "effective"
      [] t = "Sponsors" -> "sponsors"
      [] t = "Sponsor" -> "sponsor"
      [] t = "Added" -> "added"
      [] t = "January" -> "january"
      [] t = "Read" -> "read"
      [] t = "Smith" -> "smith"
      [] t = "Jones" -> "jones"
      [] t \in {"hdate", "HDATE", "hDate"} -> "hdate"
      [] t \in {"date", "Date"} -> "date"
      [] t \in {"actionDate", "actiondate"} -> "actiondate"
      [] t \in {"HJNL", "hjnl"} -> "hjnl"
      [] t \in {"SJNL", "sjnl"} -> "sjnl"
      [] t \in {"HJRNL", "hjrnl"} -> "hjrnl"
      [] t \in {"SJRNL", "sjrnl"} -> "sjrnl"
      [] OTHER -> t

\* str.title() on a chamber name
Title(t) ==
    CASE Lower(t) = "house" -> "House"
      [] Lower(t) = "senate" -> "Senate"
      [] OTHER -> t

AlphaTokens ==
    {"Introduced", "INTRODUCED", "introduced", "Reintroduced", "Passed", "PASSED",
     "passed", "House", "HOUSE", "house", "Senate", "SENATE", "senate", "Signed",
     "Approved", "by", "By", "Governor", "Withdrawn", "withdrawn", "Died", "in",
     "In", "Failed", "Effective", "effective", "date", "on", "Sponsors", "Sponsor",
     "added", "Added", "January", "Read", "first", "time", "Smith", "Jones"}

DigitVal(c) ==
    CASE c = "0" -> 0 [] c = "1" -> 1 [] c = "2" -> 2 [] c = "3" -> 3 [] c = "4" -> 4
      [] c = "5" -> 5 [] c = "6" -> 6 [] c = "7" -> 7 [] c = "8" -> 8 [] c = "9" -> 9

\* the numbers whose decimal tokens the vocabulary may hold
SmallNums == 0..99
YearNums == 1990..2030

\* tokens matching \d{1,2} and \d{4}
OneOrTwoDigits == {ToString(n) : n \in SmallNums} \cup {"0" \o ToString(n) : n \in 0..9}
FourDigits == {ToString(n) : n \in YearNums}

\* int(x) on a token; -1 stands for ValueError
IntOf(t) ==
    IF \E n \in SmallNums : ToString(n) = t
    THEN CHOOSE n \in SmallNums : ToString(n) = t
    ELSE IF \E n \in 0..9 : "0" \o ToString(n) = t
    THEN CHOOSE n \in 0..9 : "0" \o ToString(n) = t
    ELSE IF \E n \in YearNums : ToString(n) = t
    THEN CHOOSE n \in YearNums : ToString(n) = t
    ELSE -1

RECURSIVE DropWS(_)
DropWS(s) == IF s # <<>> /\ IsWS(Head(s)) THEN DropWS(Tail(s)) ELSE s

RECURSIVE CollapseWS(_)
CollapseWS(s) ==
    IF s = <<>> THEN <<>>
    ELSE IF IsWS(Head(s)) THEN <<" ">> \o CollapseWS(DropWS(Tail(s)))
    ELSE <<Head(s)>> \o CollapseWS(Tail(s))

RECURSIVE DropTrailingWS(_)
DropTrailingWS(s) ==
    IF s # <<>> /\ IsWS(s[Len(s)]) THEN DropTrailingWS(SubSeq(s, 1, Len(s) - 1)) ELSE s

\* str.strip()
Strip(s) == DropTrailingWS(DropWS(s))

\* clean(s): re.sub(r"\s+", " ", s).strip()
clean(s) == Strip(CollapseWS(s))

MinOf(S) == CHOOSE k \in S : \A j \in S : k <= j

(***************************************************************************)
(* The regular expressions of the history parser, on token sequences.      *)
(***************************************************************************)
\* words[1] at position k, then each further word after at least one
\* whitespace token (the \s+ of the patterns); the position after the match
RECURSIVE PhraseEnd(_, _, _)
PhraseEnd(t, k, words) ==
    IF k > Len(t) \/ Lower(t[k]) # Head(words) THEN 0
    ELSE IF Len(words) = 1 THEN k + 1
    ELSE LET rest == DropWS(SubSeq(t, k + 1, Len(t)))
             k2 == Len(t) - Len(rest) + 1
         IN  IF k2 = k + 1 THEN 0 ELSE PhraseEnd(t, k2, Tail(words))

PhraseAt(t, k, words) == PhraseEnd(t, k, words) # 0

HasPhrase(t, words) == \E k \in 1..Len(t) : PhraseAt(t, k, words)

\* the pattern's tokens literally, one after the other (a blank in the
\* pattern matches one " " only), compared case-insensitively
LiteralAt(t, k, toks) ==
    /\ k + Len(toks) - 1 <= Len(t)
    /\ \A j \in 1..Len(toks) : Lower(t[k + j - 1]) = toks[j]

INTRO_RE(t) == HasPhrase(t, <<"introduced">>)
PASSED_H(t) == HasPhrase(t, <<"passed", "house">>)
PASSED_S(t) == HasPhrase(t, <<"passed", "senate">>)
SIGNED_GOV(t) ==
    \/ HasPhrase(t, <<"signed", "by", "governor">>)
    \/ HasPhrase(t, <<"approved", "by", "governor">>)
EFFECTIVE(t) == HasPhrase(t, <<"effective">>)

DiedAt(t, k) ==
    \/ LiteralAt(t, k, <<"died", " ", "in", " ", "house">>)
    \/ LiteralAt(t, k, <<"died", " ", "in", " ", "senate">>)

WithdrawnAt(t, k) ==
    \/ Lower(t[k]) = "withdrawn"
    \/ DiedAt(t, k)
    \/ Lower(t[k]) = "failed"

\* WITHDRAWN.search(t): None, or the leftmost match with its group(1)
WITHDRAWN(t) ==
    LET at == {k \in 1..Len(t) : WithdrawnAt(t, k)}
    IN  IF at = {} THEN [matched |-> FALSE, group |-> ""]
        ELSE LET k == MinOf(at)
             IN  [matched |-> TRUE, group |-> IF DiedAt(t, k) THEN t[k + 4] ELSE ""]

\* SPONSORS.search(t) and the names taken from its group(1):
\* [clean(x) for x in re.split(r"[;,]", m.group(1)) if clean(x)]
RECURSIVE SplitNames(_, _)
SplitNames(s, cur) ==
    IF s = <<>> THEN (IF clean(cur) = <<>> THEN <<>> ELSE <<clean(cur)>>)
    ELSE IF Head(s) \in {",", ";"}
    THEN (IF clean(cur) = <<>> THEN <<>> ELSE <<clean(cur)>>) \o SplitNames(Tail(s), <<>>)
    ELSE SplitNames(Tail(s), Append(cur, Head(s)))

SponsorsEnd(t, k) ==
    LET e1 == PhraseEnd(t, k, <<"sponsors", "added">>)
    IN  IF e1 # 0 THEN e1 ELSE PhraseEnd(t, k, <<"sponsor", "added">>)

SPONSORS(t) ==
    LET at == {k \in 1..Len(t) : SponsorsEnd(t, k) # 0 /\ SponsorsEnd(t, k) <= Len(t)}
    IN  IF at = {} THEN [matched |-> FALSE, names |-> <<>>]
        ELSE [matched |-> TRUE,
              names |-> SplitNames(SubSeq(t, SponsorsEnd(t, MinOf(at)), Len(t)), <<>>)]

(***************************************************************************)
(* Date helpers.                                                           *)
(***************************************************************************)
\* r"\b([A-Za-z]+ \d{1,2}, \d{4})\b"
MonthDateAt(t, k) ==
    /\ k + 5 <= Len(t)
    /\ t[k] \in AlphaTokens
    /\ t[k + 1] = " "
    /\ t[k + 2] \in OneOrTwoDigits
    /\ t[k + 3] = ","
    /\ t[k + 4] = " "
    /\ t[k + 5] \in FourDigits

\* r"\b(\d{1,2}/\d{1,2}/\d{4})\b"
MdyDateAt(t, k) ==
    /\ k + 4 <= Len(t)
    /\ t[k] \in OneOrTwoDigits
    /\ t[k + 1] = "/"
    /\ t[k + 2] \in OneOrTwoDigits
    /\ t[k + 3] = "/"
    /\ t[k + 4] \in FourDigits

\* for pat in DATE_PATS: m = pat.search(t); if m: date = m.group(1); break
\* (<<>> when neither pattern matches)
DATE_PATS(t) ==
    LET mon == {k \in 1..Len(t) : MonthDateAt(t, k)}
        mdy == {k \in 1..Len(t) : MdyDateAt(t, k)}
    IN  IF mon # {} THEN SubSeq(t, MinOf(mon), MinOf(mon) + 5)
        ELSE IF mdy # {} THEN SubSeq(t, MinOf(mdy), MinOf(mdy) + 4)
        ELSE <<>>

\* int() of a two-digit slice
Int2(c1, c2) == DigitVal(c1) * 10 + DigitVal(c2)

\* a faulty variant of _ymd_to_mdy: the month and day slices kept as they are
ymd_to_mdy_padded(ymd) ==
    <<ymd[5] \o ymd[6], "/", ymd[7] \o ymd[8], "/",
      ymd[1] \o ymd[2] \o ymd[3] \o ymd[4]>>

\* _ymd_to_mdy(ymd): f"{int(m)}/{int(d)}/{y}"
ymd_to_mdy(ymd) ==
    <<ToString(Int2(ymd[5], ymd[6])), "/", ToString(Int2(ymd[7], ymd[8])), "/",
      ymd[1] \o ymd[2] \o ymd[3] \o ymd[4]>>

\* An href is a sequence of segments [kind, name, digits]: kind "query" is
\* "?name=digits..." or "&name=digits...", kind "path" is "/name/digits...",
\* digits being the run of digits that follows.
YMD_IN_HREF(h) ==
    LET at == {k \in 1..Len(h) :
                  /\ h[k].kind = "query"
                  /\ Lower(h[k].name) \in {"hdate", "date", "actiondate"}
                  /\ Len(h[k].digits) >= 8}
    IN  IF at = {} THEN <<>> ELSE SubSeq(h[MinOf(at)].digits, 1, 8)

YMD_IN_PATH(h) ==
    LET at == {k \in 1..Len(h) :
                  /\ h[k].kind = "path"
                  /\ Lower(h[k].name) \in {"hjnl", "sjnl", "hjrnl", "sjrnl"}
                  /\ Len(h[k].digits) >= 8}
    IN  IF at = {} THEN <<>> ELSE SubSeq(h[MinOf(at)].digits, 1, 8)

\* _date_from_href_str(href); <<>> stands for None
date_from_href_str(h) ==
    IF YMD_IN_HREF(h) # <<>> THEN ymd_to_mdy(YMD_IN_HREF(h))
    ELSE IF YMD_IN_PATH(h) # <<>> THEN ymd_to_mdy(YMD_IN_PATH(h))
    ELSE <<>>

\* a faulty variant of _date_from_links: the last link that yields a date wins
date_from_links_last(links) ==
    LET at == {k \in 1..Len(links) : date_from_href_str(links[k]) # <<>>}
    IN  IF at = {} THEN <<>>
        ELSE date_from_href_str(links[CHOOSE k \in at : \A j \in at : j <= k])

\* _date_from_links(tr): the first link, in row order, that yields a date
date_from_links(links) ==
    LET at == {k \in 1..Len(links) : date_from_href_str(links[k]) # <<>>}
    IN  IF at = {} THEN <<>> ELSE date_from_href_str(links[MinOf(at)])

(***************************************************************************)
(* Bill origin.                                                            *)
(***************************************************************************)
\* str.upper() on one character
Upper(c) ==
    CASE c = "h" -> "H" [] c = "f" -> "F" [] c = "s" -> "S" [] c = "b" -> "B"
      [] c = "r" -> "R" [] c = "c" -> "C" [] c = "j" -> "J" [] c = "x" -> "X"
      [] OTHER -> c

StartsWith(s, p) ==
    /\ Len(p) <= Len(s)
    /\ \A k \in 1..Len(p) : Upper(s[k]) = p[k]

HousePrefixes ==
    {<<"H", "F">>, <<"H", "S", "B">>, <<"H", "R">>, <<"H", "C", "R">>, <<"H", "C", "J">>}
SenatePrefixes ==
    {<<"S", "F">>, <<"S", "S", "B">>, <<"S", "R">>, <<"S", "C", "R">>, <<"S", "C", "J">>}

\* a faulty variant of infer_chamber_from_billno: the identifier is compared as
\* it is written
infer_chamber_case_sensitive(bn) ==
    IF \E p \in HousePrefixes : Len(p) <= Len(bn) /\ SubSeq(bn, 1, Len(p)) = p
    THEN <<"House">>
    ELSE IF \E p \in SenatePrefixes : Len(p) <= Len(bn) /\ SubSeq(bn, 1, Len(p)) = p
    THEN <<"Senate">>
    ELSE <<>>

\* infer_chamber_from_billno(billno), as a string value
infer_chamber_from_billno(bn) ==
    IF \E p \in HousePrefixes : StartsWith(bn, p) THEN <<"House">>
    ELSE IF \E p \in SenatePrefixes : StartsWith(bn, p) THEN <<"Senate">>
    ELSE <<>>

(***************************************************************************)
(* Inputs: bill numbers, history rows and pages.                           *)
(***************************************************************************)
BillNos ==
    {<<"H", "F", "2", "7">>, <<"s", "f", "4", "5">>, <<"X", "Y", "1">>}

D_1_15 == <<"1", "/", "15", "/", "2023">>
D_2_1 == <<"2", "/", "1", "/", "2023">>
D_3_1 == <<"3", "/", "1", "/", "2023">>
D_4_1 == <<"4", "/", "1", "/", "2023">>
D_5_1 == <<"5", "/", "1", "/", "2023">>

Ymd(y, m, d) == y \o m \o d
Y2023 == <<"2", "0", "2", "3">>

HrefNoDate == <<[kind |-> "query", name |-> "ba", digits |-> <<>>]>>
HrefBoth ==
    <<[kind |-> "path", name |-> "SJNL", digits |-> Ymd(Y2023, <<"0", "4">>, <<"2", "0">>)],
      [kind |-> "query", name |-> "hdate", digits |-> Ymd(Y2023, <<"0", "4">>, <<"1", "5">>)]>>
HrefPath ==
    <<[kind |-> "path", name |-> "HJNL", digits |-> Ymd(Y2023, <<"0", "3">>, <<"0", "4">>)]>>

Row(d, t, l) == [date |-> d, text |-> t, links |-> l]

RowInputs ==
    { Row(D_3_1, <<"Introduced">>, <<>>),
      Row(D_1_15, <<" ", "INTRODUCED", ",", " ", "Read", " ", "first", " ", "time">>, <<>>),
      Row(<<>>, <<"Introduced", " ", "January", " ", "5", ",", " ", "2023">>, <<>>),
      Row(<<>>, <<"Introduced">>, <<>>),
      Row(D_2_1, <<"Passed", " ", "House", ",", " ", "80", "-", "10">>, <<>>),
      Row(<<>>, <<"Passed", " ", "House">>, <<>>),
      Row(D_3_1, <<"Passed", " ", "Senate", ",", " ", "30", "-", "20">>, <<>>),
      Row(<<" ">>, <<"Passed", " ", "Senate", " ", "on", " ", "January", " ", "5", ",", " ",
                     "2023", " ", "1", "/", "6", "/", "2023">>, <<HrefNoDate, HrefBoth, HrefPath>>),
      Row(D_5_1, <<"Signed", "\t", " ", "by", " ", "Governor", " ">>, <<>>),
      Row(<<>>, <<"Approved", " ", "by", " ", "Governor">>, <<>>),
      Row(<<>>, <<"Effective", " ", "date", " ", "7", "/", "1", "/", "2023">>, <<>>),
      Row(D_4_1, <<"Withdrawn">>, <<>>),
      Row(<<>>, <<"Died", " ", "in", " ", "SENATE">>, <<HrefPath>>),
      Row(<<>>, <<"Failed">>, <<>>),
      Row(D_2_1, <<"Sponsors", " ", "added", ",", " ", "Smith", ",", " ", "Jones", ";",
                   " ", "Smith">>, <<>>),
      Row(D_1_15, <<"Read", " ", "first", " ", "time">>, <<>>) }

RECURSIVE SeqsUpTo(_, _)
SeqsUpTo(S, n) ==
    IF n = 0 THEN {<<>>}
    ELSE SeqsUpTo(S, n - 1) \cup {Append(s, x) : s \in {q \in SeqsUpTo(S, n - 1) : Len(q) = n - 1}, x \in S}

Histories == SeqsUpTo(RowInputs, MaxRows)

\* kind "billAction": the rows are those of div.billAction table.billActionTable;
\* "legacyHdr": one table after a "Bill History" heading; "legacyTable": one
\* table without such a heading; "none": no table at all
PageKinds == {"billAction", "legacyHdr", "legacyTable"}

Pages ==
    {[kind |-> k, trs |-> h] : k \in PageKinds, h \in Histories}
        \cup {[kind |-> "none", trs |-> <<>>]}

(***************************************************************************)
(* parse_bill_history_fields (scrapeiowa5.py).                             *)
(***************************************************************************)
Y == <<"Y">>
N == <<"N">>

Keys ==
    {"Introduced (Y/N)", "Introduced date", "Chamber where introduced",
     "Effective (Y/N)", "Effective date",
     "Passed introduced chamber (Y/N)", "Passed introduced chamber date",
     "Passed second chamber (Y/N)", "Passed second chamber date",
     "Pending (Y/N)", "Dead (Y/N)", "Chamber where died", "Dead date",
     "Enacted (Y/N)", "Act identifier", "Enacted Date",
     "Cosponsor"}

\* a faulty variant of NewOut: one record object is kept between calls
NewOut_reused(bn) ==
    [out EXCEPT !["Chamber where introduced"] = infer_chamber_from_billno(bn)]

\* out = {k: "" for k in [...]}; out["Chamber where introduced"] = infer_...
NewOut(bn) ==
    [[k \in Keys |-> <<>>] EXCEPT !["Chamber where introduced"] = infer_chamber_from_billno(bn)]

\* _rows_from_bill_action(soup): (date_cell, action_cell_text) per row
rows_from_bill_action(p) ==
    IF p.kind = "billAction"
    THEN [k \in 1..Len(p.trs) |-> <<clean(p.trs[k].date), clean(p.trs[k].text)>>]
    ELSE <<>>

\* clean(t.get_text(" ")) of the page's table
RECURSIVE TableTextOf(_)
TableTextOf(trs) ==
    IF trs = <<>> THEN <<>>
    ELSE Head(trs).date \o <<" ">> \o Head(trs).text \o <<" ">> \o TableTextOf(Tail(trs))

ExactAt(t, k, toks) ==
    /\ k + Len(toks) - 1 <= Len(t)
    /\ \A j \in 1..Len(toks) : t[k + j - 1] = toks[j]

\* any(k in txt for k in ["Introduced", "Passed House", "Passed Senate",
\*                       "Signed by Governor", "Approved by Governor"])
LikelyActions(trs) ==
    LET txt == clean(TableTextOf(trs))
    IN  \E k \in 1..Len(txt) :
            \/ txt[k] \in {"Introduced"}
            \/ ExactAt(txt, k, <<"Passed", " ", "House">>)
            \/ ExactAt(txt, k, <<"Passed", " ", "Senate">>)
            \/ ExactAt(txt, k, <<"Signed", " ", "by", " ", "Governor">>)
            \/ ExactAt(txt, k, <<"Approved", " ", "by", " ", "Governor">>)

\* _fallback_history_rows(soup)
fallback_history_rows(p) ==
    IF p.kind = "legacyHdr" \/ (p.kind = "legacyTable" /\ LikelyActions(p.trs))
    THEN [k \in 1..Len(p.trs) |-> <<clean(p.trs[k].date), clean(p.trs[k].text)>>]
    ELSE <<>>

\* rows = _rows_from_bill_action(soup); if not rows: rows = _fallback_history_rows(soup)
RowsOf(p) ==
    IF rows_from_bill_action(p) # <<>> THEN rows_from_bill_action(p)
    ELSE fallback_history_rows(p)

\* the rows of soup.select("div.billAction") ... "table.billActionTable tbody tr"
BillActionTrs(p) == IF p.kind = "billAction" THEN p.trs ELSE <<>>

\* the date of a billAction row: the date cell, else a date from the row's
\* links, else a date literal in the row's text (clean(tr.get_text(" ")))
RowDate(tr) ==
    LET raw_date == clean(tr.date)
        rt == clean(tr.date \o <<" ">> \o tr.text)
    IN  IF raw_date # <<>> THEN raw_date
        ELSE IF date_from_links(tr.links) # <<>> THEN date_from_links(tr.links)
        ELSE DATE_PATS(rt)

\* the date of a (date_cell, action) row of the rows list: the links are not
\* available there, only the date literals of the action text
ListRowDate(row) ==
    IF row[1] # <<>> THEN row[1] ELSE DATE_PATS(row[2])

\* a faulty variant of MapIntroduced: the action text is not tested
MapIntroduced_any(o, d, a) ==
    IF o["Introduced date"] = <<>>
    THEN [o EXCEPT !["Introduced (Y/N)"] = Y, !["Introduced date"] = d]
    ELSE o

\* if INTRO_RE.search(action_text) and not out["Introduced date"]
MapIntroduced(o, d, a) ==
    IF INTRO_RE(a) /\ o["Introduced date"] = <<>>
    THEN [o EXCEPT !["Introduced (Y/N)"] = Y, !["Introduced date"] = d]
    ELSE o

\* if PASSED_x.search(action_text): the introduced-chamber field when the bill
\* started in that chamber and the field's date is empty, elif the
\* second-chamber field when its date is empty
MapPassed(o, d, matched, chamber) ==
    IF ~matched THEN o
    ELSE IF o["Chamber where introduced"] = <<chamber>>
            /\ o["Passed introduced chamber date"] = <<>>
    THEN [o EXCEPT !["Passed introduced chamber (Y/N)"] = Y,
                   !["Passed introduced chamber date"] = d]
    ELSE IF o["Passed second chamber date"] = <<>>
    THEN [o EXCEPT !["Passed second chamber (Y/N)"] = Y,
                   !["Passed second chamber date"] = d]
    ELSE o

\* a faulty variant of MapEnacted: the status is recorded only with a date
MapEnacted_dated(o, d, a) ==
    IF SIGNED_GOV(a) /\ o["Enacted Date"] = <<>> /\ d # <<>>
    THEN [o EXCEPT !["Enacted (Y/N)"] = Y, !["Enacted Date"] = d]
    ELSE o

\* if SIGNED_GOV.search(action_text) and not out["Enacted Date"]
MapEnacted(o, d, a) ==
    IF SIGNED_GOV(a) /\ o["Enacted Date"] = <<>>
    THEN [o EXCEPT !["Enacted (Y/N)"] = Y, !["Enacted Date"] = d]
    ELSE o

\* if EFFECTIVE.search(action_text) and not out["Effective date"]
MapEffective(o, d, a) ==
    IF EFFECTIVE(a) /\ o["Effective date"] = <<>>
    THEN [o EXCEPT !["Effective (Y/N)"] = Y, !["Effective date"] = d]
    ELSE o

\* a faulty variant of MapDead: guarded by the date, as the other fields are
MapDead_by_date(o, d, a) ==
    LET m2 == WITHDRAWN(a)
    IN  IF m2.matched /\ o["Dead date"] = <<>>
        THEN [o EXCEPT !["Dead (Y/N)"] = Y,
                       !["Dead date"] = d,
                       !["Chamber where died"] =
                           IF m2.group # "" THEN <<Title(m2.group)>>
                           ELSE o["Chamber where introduced"]]
        ELSE o

\* a faulty variant of MapDead: the chamber is always the origin chamber
MapDead_origin_chamber(o, d, a) ==
    LET m2 == WITHDRAWN(a)
    IN  IF m2.matched /\ o["Dead (Y/N)"] = <<>>
        THEN [o EXCEPT !["Dead (Y/N)"] = Y,
                       !["Dead date"] = d,
                       !["Chamber where died"] = o["Chamber where introduced"]]
        ELSE o

\* m2 = WITHDRAWN.search(action_text); if m2 and not out["Dead (Y/N)"]
MapDead(o, d, a) ==
    LET m2 == WITHDRAWN(a)
    IN  IF m2.matched /\ o["Dead (Y/N)"] = <<>>
        THEN [o EXCEPT !["Dead (Y/N)"] = Y,
                       !["Dead date"] = d,
                       !["Chamber where died"] =
                           IF m2.group # "" THEN <<Title(m2.group)>>
                           ELSE o["Chamber where introduced"]]
        ELSE o

\* one row's field updates, in the order of the code
MapActions(o, d, a) ==
    LET o1 == MapIntroduced(o, d, a)
        o2 == MapPassed(o1, d, PASSED_H(a), "House")
        o3 == MapPassed(o2, d, PASSED_S(a), "Senate")
        o4 == MapEnacted(o3, d, a)
        o5 == MapEffective(o4, d, a)
    IN  MapDead(o5, d, a)

DateFields ==
    {"Passed introduced chamber date", "Passed second chamber date", "Enacted Date",
     "Effective date", "Dead date"}

\* the condition under which the rows list is scanned after the table
NeedsListScan(o) ==
    \/ o["Introduced date"] = <<>>
    \/ ~ \E k \in DateFields : o[k] # <<>>

\* seen, uniq = set(), []; for n in cosponsors: if n not in seen: ...
RECURSIVE Uniq(_, _)
Uniq(names, seen) ==
    IF names = <<>> THEN <<>>
    ELSE IF Head(names) \in seen THEN Uniq(Tail(names), seen)
    ELSE <<Head(names)>> \o Uniq(Tail(names), seen \cup {Head(names)})

\* ", ".join(uniq)
RECURSIVE Join(_)
Join(names) ==
    IF names = <<>> THEN <<>>
    ELSE IF Len(names) = 1 THEN Head(names)
    ELSE Head(names) \o <<",", " ">> \o Join(Tail(names))

\* a faulty variant of PendingOf: a dead event is told by its date
PendingOf_by_date(o) ==
    IF o["Enacted (Y/N)"] # Y /\ o["Dead date"] = <<>> THEN Y ELSE N

\* Pending if neither enacted nor dead
PendingOf(o) ==
    IF o["Enacted (Y/N)"] # Y /\ o["Dead (Y/N)"] # Y THEN Y ELSE N

\* a faulty variant of EarlyReturn: the record is returned as it was created
EarlyReturn_unset(o) == o

\* if not rows: out["Pending (Y/N)"] = "Y"; return out
EarlyReturn(o) == [o EXCEPT !["Pending (Y/N)"] = Y]

HtmlBegin ==
    /\ pc = "start"
    /\ rows' = RowsOf(page)
    /\ IF rows' = <<>>
       THEN /\ out' = EarlyReturn(NewOut(billno))
            /\ pc' = "done"
       ELSE /\ out' = NewOut(billno)
            /\ pc' = "primary"
    /\ i' = 1
    /\ cosponsors' = <<>>
    /\ UNCHANGED <<billno, page, date, pw, href, recovered, callervars, mainvars, purevars>>

\* one iteration of the loop over the billAction table rows
HtmlPrimaryStep ==
    /\ pc = "primary"
    /\ i <= Len(BillActionTrs(page))
    /\ LET tr == BillActionTrs(page)[i]
           action_text == clean(tr.text)
       IN  /\ date' = RowDate(tr)
           /\ out' = MapActions(out, RowDate(tr), action_text)
           /\ cosponsors' = cosponsors \o SPONSORS(action_text).names
    /\ i' = i + 1
    /\ UNCHANGED <<billno, page, pc, rows, pw, href, recovered, callervars, mainvars, purevars>>

\* the loop over the table is over: scan the rows list, or finish
HtmlPrimaryExit ==
    /\ pc = "primary"
    /\ i > Len(BillActionTrs(page))
    /\ pc' = IF NeedsListScan(out) THEN "fallback" ELSE "final"
    /\ i' = 1
    /\ UNCHANGED <<billno, page, rows, out, cosponsors, date, pw, href, recovered, callervars, mainvars, purevars>>

\* one iteration of "for date_cell, action in rows"
HtmlFallbackStep ==
    /\ pc = "fallback"
    /\ i <= Len(rows)
    /\ LET row == rows[i]
       IN  /\ date' = ListRowDate(row)
           /\ out' = MapActions(out, ListRowDate(row), row[2])
           /\ cosponsors' = cosponsors \o SPONSORS(row[2]).names
    /\ i' = i + 1
    /\ UNCHANGED <<billno, page, pc, rows, pw, href, recovered, callervars, mainvars, purevars>>

\* finalize cosponsors, derive pending, return
HtmlFinalize ==
    /\ \/ pc = "final"
       \/ pc = "fallback" /\ i > Len(rows)
    /\ LET o1 == IF cosponsors # <<>>
                 THEN [out EXCEPT !["Cosponsor"] = Join(Uniq(cosponsors, {}))]
                 ELSE out
       IN  out' = [o1 EXCEPT !["Pending (Y/N)"] = PendingOf(o1)]
    /\ pc' = "done"
    /\ UNCHANGED <<billno, page, rows, i, cosponsors, date, pw, href, recovered, callervars, mainvars, purevars>>

PwIdle ==
    [intro_dates |-> <<>>, passed_intro_date |-> <<>>, passed_second_date |-> <<>>,
     effective_date |-> <<>>, dead_date |-> <<>>, enacted_flag |-> <<>>,
     enacted_date |-> <<>>, introduced_date |-> <<>>]

\* no caller, no main() and no separately applied function is running
NoCaller == parser = "" /\ todo = <<>> /\ calls = <<>>
NoMain ==
    /\ scraper = "" /\ sessions = <<>> /\ ga = 0 /\ ga_links = <<>> /\ seen_bills = {}
    /\ collected = <<>> /\ phase = "" /\ csv = <<>> /\ failed_urls = {}
NoPure == arg = <<>> /\ result = <<>>

HtmlInit ==
    /\ billno \in BillNos
    /\ page \in Pages
    /\ pc = "start"
    /\ rows = <<>>
    /\ i = 1
    /\ out = [k \in Keys |-> <<>>]
    /\ cosponsors = <<>>
    /\ date = <<>>
    /\ pw = PwIdle
    /\ href = <<>>
    /\ recovered = <<>>
    /\ NoCaller /\ NoMain /\ NoPure

HtmlNext ==
    \/ HtmlBegin
    \/ HtmlPrimaryStep
    \/ HtmlPrimaryExit
    \/ HtmlFallbackStep
    \/ HtmlFinalize

Spec == HtmlInit /\ [][HtmlNext]_vars

(***************************************************************************)
(* Properties of parse_bill_history_fields.                                *)
(***************************************************************************)
Origin == infer_chamber_from_billno(billno)
Returned == pc = "done"
HistoryRows == IF pc = "start" THEN RowsOf(page) ELSE rows
SomeRow(P(_)) == \E k \in 1..Len(HistoryRows) : P(HistoryRows[k][2])
WithdrawnMatches(a) == WITHDRAWN(a).matched

\* C1: for a non-empty history the returned Pending (Y/N) is "Y" exactly when
\* the enacted flag is not Y and no dead event was recorded (no row matched the
\* dead predicate, the dead flag is not Y), and "N" otherwise; it is empty
\* until the function returns.
C1_PendingDerived ==
    /\ (Returned /\ HistoryRows # <<>>) =>
          /\ out["Pending (Y/N)"] \in {Y, N}
          /\ out["Pending (Y/N)"] = Y <=>
                (out["Enacted (Y/N)"] # Y /\ out["Dead (Y/N)"] # Y)
          /\ out["Dead (Y/N)"] = Y <=> SomeRow(WithdrawnMatches)
    /\ ~Returned => out["Pending (Y/N)"] = <<>>

\* a dead event recorded with an unknown date makes the bill not pending
C1_Witness ==
    /\ Returned /\ HistoryRows # <<>>
    /\ out["Dead (Y/N)"] = Y /\ out["Dead date"] = <<>>
    /\ out["Enacted (Y/N)"] = <<>>
    /\ out["Pending (Y/N)"] = N

\* C2: an empty history returns pending "Y" and every date field, flag, dead
\* field and the cosponsor list empty, whatever the origin.
C2_EmptyHistory ==
    (Returned /\ HistoryRows = <<>>) =>
        /\ out["Pending (Y/N)"] = Y
        /\ \A k \in Keys \ {"Pending (Y/N)", "Chamber where introduced"} : out[k] = <<>>
        /\ out["Chamber where introduced"] = Origin

C2_Witness ==
    /\ Returned /\ HistoryRows = <<>>
    /\ Origin = <<"Senate">>
    /\ out["Pending (Y/N)"] = Y

FlagOf ==
    [k \in DateFields |->
        CASE k = "Passed introduced chamber date" -> "Passed introduced chamber (Y/N)"
          [] k = "Passed second chamber date" -> "Passed second chamber (Y/N)"
          [] k = "Enacted Date" -> "Enacted (Y/N)"
          [] k = "Effective date" -> "Effective (Y/N)"
          [] k = "Dead date" -> "Dead (Y/N)"]

\* C3: first-match-wins: once an entry has matched a field's predicate and set
\* the field (its flag is Y), no later step changes the field's date, flag or
\* (for the dead field) chamber.
C3_FirstMatchWins ==
    [][\A k \in DateFields :
          out[FlagOf[k]] = Y =>
              /\ out'[k] = out[k]
              /\ out'[FlagOf[k]] = Y
              /\ (k = "Dead date" => out'["Chamber where died"] = out["Chamber where died"])]_vars

House == <<"House">>
Senate == <<"Senate">>
PassedHouseRows == {k \in 1..Len(HistoryRows) : PASSED_H(HistoryRows[k][2])}
PassedSenateRows == {k \in 1..Len(HistoryRows) : PASSED_S(HistoryRows[k][2])}
OriginPassages == IF Origin = House THEN PassedHouseRows ELSE PassedSenateRows
OtherPassages == IF Origin = House THEN PassedSenateRows ELSE PassedHouseRows
TheOne(S) == CHOOSE k \in S : TRUE

\* the date of history entry k: its date cell, or what a scan recovers for it
EntryDates(k) ==
    {ListRowDate(HistoryRows[k])}
        \cup (IF page.kind = "billAction" THEN {RowDate(page.trs[k])} ELSE {})

\* C5: with one "Passed House" and one "Passed Senate" entry, in either order,
\* the origin chamber's entry gives passed_origin_chamber_date and the other
\* chamber's entry gives passed_other_chamber_date; with the origin chamber's
\* passage alone, passed_other_chamber_date stays empty.
C5_PassageByChamber ==
    (Returned /\ Origin \in {House, Senate}) =>
        /\ (Cardinality(OriginPassages) = 1 /\ Cardinality(OtherPassages) = 1
               /\ OriginPassages \cap OtherPassages = {}) =>
              /\ out["Passed introduced chamber date"] \in EntryDates(TheOne(OriginPassages))
              /\ out["Passed second chamber date"] \in EntryDates(TheOne(OtherPassages))
        /\ (Cardinality(OriginPassages) = 1 /\ OtherPassages = {}) =>
              /\ out["Passed introduced chamber date"] \in EntryDates(TheOne(OriginPassages))
              /\ out["Passed second chamber date"] = <<>>
              /\ out["Passed second chamber (Y/N)"] = <<>>

\* C6: with origin House or Senate, a non-empty passed_other_chamber_date is
\* the date of an entry recording passage by the chamber that is not the origin.
C6_OtherChamberOnly ==
    (Origin \in {House, Senate} /\ out["Passed second chamber date"] # <<>>) =>
        \E k \in OtherPassages : out["Passed second chamber date"] \in EntryDates(k)

\* C7: with an unrecognized prefix the origin is "", no passage entry sets the
\* passed-origin-chamber field, and the second-chamber field is that of the
\* first passage entry of either chamber, later ones being ignored.
C7_UnknownOrigin ==
    (~ \E p \in HousePrefixes \cup SenatePrefixes : StartsWith(billno, p)) =>
        /\ Origin = <<>>
        /\ pc # "start" => out["Chamber where introduced"] = <<>>
        /\ out["Passed introduced chamber date"] = <<>>
        /\ out["Passed introduced chamber (Y/N)"] = <<>>
        /\ (Returned /\ PassedHouseRows \cup PassedSenateRows # {}) =>
              /\ out["Passed second chamber (Y/N)"] = Y
              /\ out["Passed second chamber date"]
                    \in EntryDates(MinOf(PassedHouseRows \cup PassedSenateRows))

\* the recovery priority, stated on a table row: the date cell when it is not
\* blank; else the date of the first link, in row order, that holds a
\* YYYYMMDD value, its query parameter before its journal path; else the
\* first "Month DD, YYYY" literal of the text; else its first "MM/DD/YYYY"
\* literal; else nothing
PriorityDate(tr) ==
    LET cell == clean(tr.date)
        txt == clean(tr.date \o <<" ">> \o tr.text)
        holds(l) == YMD_IN_HREF(l) # <<>> \/ YMD_IN_PATH(l) # <<>>
        linked == {k \in 1..Len(tr.links) : holds(tr.links[k])}
        l1 == tr.links[MinOf(linked)]
        mon == {k \in 1..Len(txt) : MonthDateAt(txt, k)}
        mdy == {k \in 1..Len(txt) : MdyDateAt(txt, k)}
    IN  IF cell # <<>> THEN cell
        ELSE IF linked # {}
        THEN ymd_to_mdy(IF YMD_IN_HREF(l1) # <<>> THEN YMD_IN_HREF(l1) ELSE YMD_IN_PATH(l1))
        ELSE IF mon # {} THEN SubSeq(txt, MinOf(mon), MinOf(mon) + 5)
        ELSE IF mdy # {} THEN SubSeq(txt, MinOf(mdy), MinOf(mdy) + 4)
        ELSE <<>>

InTableScan == pc = "primary" /\ i > 1
InListScan == pc = "fallback" /\ i > 1
NoLinks(tr) == [tr EXCEPT !.links = <<>>]

\* C9 as claimed: every scanned entry's date follows the recovery priority,
\* links before literals.
C9_RecoveryPriority ==
    /\ InTableScan => date = PriorityDate(page.trs[i - 1])
    /\ InListScan => date = PriorityDate(page.trs[i - 1])

\* C9 amended: the scan of the billAction table rows follows the recovery
\* priority; the scan of the extracted (date, action) rows list uses the date
\* cell when not blank and else the literal patterns alone, never a link.
C9_RecoveryPriorityByScan ==
    /\ InTableScan => date = PriorityDate(page.trs[i - 1])
    /\ InListScan => date = PriorityDate(NoLinks(page.trs[i - 1]))

\* a blank date cell, a first link without a date, a second link holding a
\* journal path and an hdate parameter, and date literals in the text: the
\* hdate value is used
C9_Witness ==
    /\ InTableScan
    /\ clean(page.trs[i - 1].date) = <<>>
    /\ Len(page.trs[i - 1].links) >= 2
    /\ date_from_href_str(page.trs[i - 1].links[1]) = <<>>
    /\ DATE_PATS(clean(page.trs[i - 1].text)) # <<>>
    /\ date = <<"4", "/", "15", "/", "2023">>

\* C10: a status whose entry has no date and none recoverable is still
\* recorded: each flag is Y exactly when some entry matched its predicate,
\* whatever the dates, and pending is derived from the flags.
C10_MatchedStatusRecorded ==
    (Returned /\ HistoryRows # <<>>) =>
        /\ out["Introduced (Y/N)"] = Y <=> SomeRow(INTRO_RE)
        /\ out["Enacted (Y/N)"] = Y <=> SomeRow(SIGNED_GOV)
        /\ out["Effective (Y/N)"] = Y <=> SomeRow(EFFECTIVE)
        /\ out["Dead (Y/N)"] = Y <=> SomeRow(WithdrawnMatches)
        /\ (Origin # <<>> /\ OriginPassages # {}) =>
               out["Passed introduced chamber (Y/N)"] = Y
        /\ (Origin = <<>> /\ PassedHouseRows \cup PassedSenateRows # {}) =>
               out["Passed second chamber (Y/N)"] = Y
        /\ (Origin # <<>> /\ OtherPassages # {}) =>
               out["Passed second chamber (Y/N)"] = Y
        /\ out["Pending (Y/N)"] = N <=> (SomeRow(SIGNED_GOV) \/ SomeRow(WithdrawnMatches))

\* a governor-approval entry without any date: enacted is Y with an empty date
C10_Witness ==
    /\ Returned
    /\ \E k \in 1..Len(page.trs) :
          /\ SIGNED_GOV(clean(page.trs[k].text))
          /\ RowDate(page.trs[k]) = <<>>
    /\ out["Enacted (Y/N)"] = Y
    /\ out["Enacted Date"] = <<>>
    /\ out["Pending (Y/N)"] = N

SignedRows == {k \in 1..Len(HistoryRows) : SIGNED_GOV(HistoryRows[k][2])}
DeadRows == {k \in 1..Len(HistoryRows) : WITHDRAWN(HistoryRows[k][2]).matched}

\* the date the classifier reads for history entry k when it first meets it:
\* in the table scan of a billAction page, in the rows-list scan otherwise
EntryDate(k) ==
    IF page.kind = "billAction" THEN RowDate(page.trs[k]) ELSE ListRowDate(HistoryRows[k])

\* C11: a history with a "Signed by Governor" or "Approved by Governor" entry
\* returns enacted flag Y, the date of the first such entry as enacted date,
\* and pending N, whatever the other entries.
C11_EnactedFirst ==
    (Returned /\ SignedRows # {}) =>
        /\ out["Enacted (Y/N)"] = Y
        /\ out["Enacted Date"] = EntryDate(MinOf(SignedRows))
        /\ out["Pending (Y/N)"] = N

\* C12: a history with a withdrawn / died-in-chamber / failed entry and no
\* governor-signature entry returns dead flag Y, the date of the first such
\* entry as dead date, and pending N.
C12_DeadFirst ==
    (Returned /\ DeadRows # {} /\ SignedRows = {}) =>
        /\ out["Dead (Y/N)"] = Y
        /\ out["Dead date"] = EntryDate(MinOf(DeadRows))
        /\ out["Pending (Y/N)"] = N

\* two dead entries, the first without a date: the dead date stays empty
C12_Witness ==
    /\ Returned
    /\ SignedRows = {}
    /\ Cardinality(DeadRows) = 2
    /\ EntryDate(1) = <<>>
    /\ EntryDate(2) = D_4_1
    /\ out["Dead (Y/N)"] = Y
    /\ out["Dead date"] = <<>>
    /\ out["Pending (Y/N)"] = N

MatchesAny(a) ==
    \/ INTRO_RE(a) \/ PASSED_H(a) \/ PASSED_S(a) \/ SIGNED_GOV(a) \/ EFFECTIVE(a)
    \/ WITHDRAWN(a).matched \/ SPONSORS(a).matched

\* the record with every field empty but the inferred origin and pending Y
Baseline == [NewOut(billno) EXCEPT !["Pending (Y/N)"] = Y]

\* the action text of the entry a scan step is about to read
ScannedText ==
    IF pc = "primary" THEN clean(BillActionTrs(page)[i].text) ELSE rows[i][2]

ScanStep == pc \in {"primary", "fallback"} /\ i' = i + 1

\* C13: a non-empty history none of whose entries matches a predicate returns
\* the baseline record (every date, flag, dead field and the cosponsor list
\* empty, pending Y), and a scan step over an entry that matches nothing
\* changes no field and adds no cosponsor.
C13_BaselineKept ==
    /\ []((Returned /\ HistoryRows # <<>> /\ ~SomeRow(MatchesAny)) => out = Baseline)
    /\ [][(ScanStep /\ ~MatchesAny(ScannedText)) =>
              (out' = out /\ cosponsors' = cosponsors)]_vars

C13_Witness ==
    /\ Returned
    /\ Len(HistoryRows) = 2
    /\ ~SomeRow(MatchesAny)
    /\ out = Baseline

\* the words of the dead predicate in an action text, by position
DeadWordAt(a, k) ==
    \/ Lower(a[k]) \in {"withdrawn", "failed"}
    \/ /\ k + 4 <= Len(a)
       /\ Lower(a[k]) = "died" /\ a[k + 1] = " " /\ Lower(a[k + 2]) = "in" /\ a[k + 3] = " "
       /\ Lower(a[k + 4]) \in {"house", "senate"}

\* the chamber an action text names at its first dead word, "" when that
\* word is Withdrawn or Failed
NamedChamber(a) ==
    LET k == MinOf({j \in 1..Len(a) : DeadWordAt(a, j)})
    IN  IF Lower(a[k]) # "died" THEN ""
        ELSE IF Lower(a[k + 4]) = "house" THEN "House" ELSE "Senate"

\* C23: when a dead event is recorded, dead_chamber is the chamber named by
\* the first dead entry's "Died in <chamber>" text, title-cased, and the
\* origin chamber when that entry is Withdrawn or Failed; dead_chamber is
\* non-empty only if a dead event was recorded.
C23_DeadChamber ==
    /\ (Returned /\ DeadRows # {}) =>
          /\ out["Dead (Y/N)"] = Y
          /\ out["Chamber where died"] =
                LET c == NamedChamber(HistoryRows[MinOf(DeadRows)][2])
                IN  IF c # "" THEN <<c>> ELSE Origin
    /\ out["Chamber where died"] # <<>> =>
          (out["Dead (Y/N)"] = Y /\ DeadRows # {})

\* a House bill that died in the Senate, the chamber written in capitals
C23_Witness ==
    /\ Returned
    /\ Origin = House
    /\ DeadRows # {}
    /\ HistoryRows[MinOf(DeadRows)][2] = <<"Died", " ", "in", " ", "SENATE">>
    /\ out["Chamber where died"] = Senate

\* a Senate bill withdrawn: the chamber is the origin chamber
C23_WitnessOrigin ==
    /\ Returned
    /\ Origin = Senate
    /\ DeadRows # {}
    /\ HistoryRows[MinOf(DeadRows)][2] = <<"Withdrawn">>
    /\ out["Chamber where died"] = Senate

IntroducedRows == {k \in 1..Len(HistoryRows) : INTRO_RE(HistoryRows[k][2])}

\* C25: the introduced date is the date of the first entry, in document
\* order, matching the Introduced predicate; no later matching entry
\* replaces it, even one with an earlier calendar date.
C25_IntroducedFirstMatch ==
    (Returned /\ IntroducedRows # {}) =>
        /\ out["Introduced (Y/N)"] = Y
        /\ out["Introduced date"] = EntryDate(MinOf(IntroducedRows))

\* what holds instead: the first matching entry gives the date when it has
\* one, whatever the calendar order of the later ones
C25_IntroducedFirstDated ==
    (Returned /\ IntroducedRows # {} /\ EntryDate(MinOf(IntroducedRows)) # <<>>) =>
        /\ out["Introduced (Y/N)"] = Y
        /\ out["Introduced date"] = EntryDate(MinOf(IntroducedRows))

\* "Introduced" on 3/1/2023 listed before "INTRODUCED" on 1/15/2023
C25_LaterEarlierDate ==
    /\ Returned
    /\ IntroducedRows = {1, 2}
    /\ EntryDate(1) = D_3_1 /\ EntryDate(2) = D_1_15
    /\ out["Introduced date"] = D_3_1

\* the record and cosponsor names after one left-to-right scan of table rows
RECURSIVE TableScan(_, _)
TableScan(w, trs) ==
    IF trs = <<>> THEN w
    ELSE LET tr == Head(trs)
             action_text == clean(tr.text)
         IN  TableScan([o |-> MapActions(w.o, RowDate(tr), action_text),
                        names |-> w.names \o SPONSORS(action_text).names],
                       Tail(trs))

\* what a single scan of the billAction table returns
SingleScanRecord ==
    LET w == TableScan([o |-> NewOut(billno), names |-> <<>>], BillActionTrs(page))
        o1 == IF w.names # <<>>
              THEN [w.o EXCEPT !["Cosponsor"] = Join(Uniq(w.names, {}))]
              ELSE w.o
    IN  [o1 EXCEPT !["Pending (Y/N)"] = PendingOf(o1)]

\* a step of the scan of the rows list leaves every field that is set alone
SetFieldsKept ==
    (pc = "fallback" /\ i' = i + 1) => \A k \in Keys : out[k] # <<>> => out'[k] = out[k]

\* C29: on a page with the billAction table, the scan of the rows list
\* changes no field the table scan set, and the returned record is that of
\* a single left-to-right scan of the table, the cosponsors gathered twice
\* being collapsed.
C29_SecondPassNeutral ==
    /\ []((Returned /\ page.kind = "billAction" /\ HistoryRows # <<>>) =>
              out = SingleScanRecord)
    /\ [][page.kind = "billAction" => SetFieldsKept]_vars

\* what holds instead: the rows-list scan changes no field that is set, but
\* it may fill fields the table scan left empty
C29_SetFieldsKept == [][page.kind = "billAction" => SetFieldsKept]_vars

\* a page scanned twice whose record is that of the single scan, with the
\* cosponsors of the two scans collapsed
C29_SameAsSingleScan ==
    /\ Returned /\ page.kind = "billAction"
    /\ Len(cosponsors) = 6
    /\ out["Cosponsor"] = <<"Smith", ",", " ", "Jones">>
    /\ out = SingleScanRecord

(***************************************************************************)
(* parse_dates_with_playwright (date_tester.py).                           *)
(***************************************************************************)
D_12_1_22 == <<"12", "/", "1", "/", "2022">>

PwRowInputs ==
    RowInputs \cup {Row(D_12_1_22, <<"Reintroduced", " ", "in", " ", "House">>, <<>>),
                    Row(<<>>, <<"Introduced", " ", "January", " ", "9", ",", " ", "2023">>, <<>>)}

PwPages == {[kind |-> "billAction", trs |-> h] : h \in SeqsUpTo(PwRowInputs, MaxRows)}

\* "introduced" in low
ContainsIntroduced(t) ==
    \E k \in 1..Len(t) : Lower(t[k]) \in {"introduced", "reintroduced"}

\* d.split("/")
RECURSIVE SplitSlash(_, _)
SplitSlash(d, cur) ==
    IF d = <<>> THEN <<cur>>
    ELSE IF Head(d) = "/" THEN <<cur>> \o SplitSlash(Tail(d), <<>>)
    ELSE SplitSlash(Tail(d), Append(cur, Head(d)))

\* int(x) of one part of the split; -1 stands for ValueError
PartInt(part) ==
    LET x == Strip(part) IN IF Len(x) = 1 THEN IntOf(x[1]) ELSE -1

\* a faulty variant of mdy_key: the fields compared in the order written
mdy_key_as_written(d) ==
    LET parts == SplitSlash(d, <<>>)
    IN  IF Len(parts) = 3 /\ \A k \in 1..3 : PartInt(parts[k]) >= 0
        THEN <<PartInt(parts[1]), PartInt(parts[2]), PartInt(parts[3])>>
        ELSE <<9999, 12, 31>>

\* a faulty variant of mdy_key: a date that is not three integers sorts first
mdy_key_low_sentinel(d) ==
    LET parts == SplitSlash(d, <<>>)
    IN  IF Len(parts) = 3 /\ \A k \in 1..3 : PartInt(parts[k]) >= 0
        THEN <<PartInt(parts[3]), PartInt(parts[1]), PartInt(parts[2])>>
        ELSE <<0, 0, 0>>

\* mdy_key(d): (y, m, dd), or (9999, 12, 31) when d is not three integers
mdy_key(d) ==
    LET parts == SplitSlash(d, <<>>)
    IN  IF Len(parts) = 3 /\ \A k \in 1..3 : PartInt(parts[k]) >= 0
        THEN <<PartInt(parts[3]), PartInt(parts[1]), PartInt(parts[2])>>
        ELSE <<9999, 12, 31>>

\* tuple comparison a <= b
TupleLeq(a, b) ==
    \/ a[1] < b[1]
    \/ a[1] = b[1] /\ a[2] < b[2]
    \/ a[1] = b[1] /\ a[2] = b[2] /\ a[3] <= b[3]

\* x put after the elements of the sorted s whose key is not greater
RECURSIVE InsertByKey(_, _)
InsertByKey(s, x) ==
    IF s = <<>> THEN <<x>>
    ELSE IF TupleLeq(mdy_key(Head(s)), mdy_key(x))
    THEN <<Head(s)>> \o InsertByKey(Tail(s), x)
    ELSE <<x>> \o s

\* intro_dates.sort(key=mdy_key): a stable sort
RECURSIVE SortByKey(_)
SortByKey(s) ==
    IF s = <<>> THEN <<>>
    ELSE InsertByKey(SortByKey(SubSeq(s, 1, Len(s) - 1)), s[Len(s)])

\* the date of a row: the date cell, else the first link that yields a
\* date, else a date literal of the action text
PwRowDate(tr) ==
    LET cell == Strip(tr.date)
        action == Strip(tr.text)
    IN  IF cell # <<>> THEN cell
        ELSE IF date_from_links(tr.links) # <<>> THEN date_from_links(tr.links)
        ELSE DATE_PATS(action)

\* if PASSED_x.search(action): passed_intro_date when the bill started in
\* that chamber and it is empty, elif passed_second_date when it is empty
PwPassed(w, d, matched, chamber, introduced_chamber) ==
    IF ~matched THEN w
    ELSE IF introduced_chamber = <<chamber>> /\ w.passed_intro_date = <<>>
    THEN [w EXCEPT !.passed_intro_date = d]
    ELSE IF w.passed_second_date = <<>>
    THEN [w EXCEPT !.passed_second_date = d]
    ELSE w

\* one row's updates of the locals, in the order of the code
PwMapActions(w, d, action, introduced_chamber) ==
    LET w1 == IF ContainsIntroduced(action) /\ d # <<>>
              THEN [w EXCEPT !.intro_dates = Append(@, d)] ELSE w
        w2 == PwPassed(w1, d, PASSED_H(action), "House", introduced_chamber)
        w3 == PwPassed(w2, d, PASSED_S(action), "Senate", introduced_chamber)
        w4 == IF EFFECTIVE(action) /\ w3.effective_date = <<>>
              THEN [w3 EXCEPT !.effective_date = d] ELSE w3
        w5 == IF SIGNED_GOV(action) /\ w4.enacted_date = <<>>
              THEN [w4 EXCEPT !.enacted_flag = Y, !.enacted_date = d] ELSE w4
    IN  IF WITHDRAWN(action).matched /\ w5.dead_date = <<>>
        THEN [w5 EXCEPT !.dead_date = d] ELSE w5

\* the rows are located and the locals initialised
PwBegin ==
    /\ pc = "start"
    /\ pw' = PwIdle
    /\ i' = 1
    /\ pc' = "loop"
    /\ UNCHANGED <<billno, page, rows, out, cosponsors, date, href, recovered, callervars, mainvars, purevars>>

\* one iteration of "for i in range(n)"
PwStep ==
    /\ pc = "loop"
    /\ i <= Len(page.trs)
    /\ date' = PwRowDate(page.trs[i])
    /\ pw' = PwMapActions(pw, PwRowDate(page.trs[i]), Strip(page.trs[i].text),
                          infer_chamber_from_billno(billno))
    /\ i' = i + 1
    /\ UNCHANGED <<billno, page, pc, rows, out, cosponsors, href, recovered, callervars, mainvars, purevars>>

\* the earliest introduced date is picked and the record returned
PwFinish ==
    /\ pc = "loop"
    /\ i > Len(page.trs)
    /\ pw' = [pw EXCEPT !.introduced_date =
                  IF pw.intro_dates # <<>> THEN SortByKey(pw.intro_dates)[1] ELSE <<>>]
    /\ pc' = "done"
    /\ UNCHANGED <<billno, page, rows, i, out, cosponsors, date, href, recovered, callervars, mainvars, purevars>>

PwInit ==
    /\ billno \in BillNos
    /\ page \in PwPages
    /\ pc = "start"
    /\ rows = <<>>
    /\ i = 1
    /\ out = [k \in Keys |-> <<>>]
    /\ cosponsors = <<>>
    /\ date = <<>>
    /\ pw = PwIdle
    /\ href = <<>>
    /\ recovered = <<>>
    /\ NoCaller /\ NoMain /\ NoPure

PwNext ==
    \/ PwBegin
    \/ PwStep
    \/ PwFinish

SpecPw == PwInit /\ [][PwNext]_vars

(***************************************************************************)
(* Properties of parse_dates_with_playwright.                              *)
(***************************************************************************)
\* the entries whose text holds "introduced" and that have a date
IntroEntries ==
    {k \in 1..Len(page.trs) :
        ContainsIntroduced(Strip(page.trs[k].text)) /\ PwRowDate(page.trs[k]) # <<>>}

IsMdy(d) ==
    /\ Len(d) = 5
    /\ d[2] = "/" /\ d[4] = "/"
    /\ IntOf(d[1]) >= 0 /\ IntOf(d[3]) >= 0 /\ IntOf(d[5]) >= 0

IsMonthLiteral(d) == Len(d) = 6 /\ MonthDateAt(d, 1)

MonthNo(t) == CASE Lower(t) = "january" -> 1 [] OTHER -> 0

\* the calendar value (year, month, day) of a date string
CalendarOf(d) ==
    IF IsMdy(d) THEN <<IntOf(d[5]), IntOf(d[1]), IntOf(d[3])>>
    ELSE IF IsMonthLiteral(d) THEN <<IntOf(d[6]), MonthNo(d[1]), IntOf(d[3])>>
    ELSE <<0, 0, 0>>

MdyIntroEntries == {k \in IntroEntries : IsMdy(PwRowDate(page.trs[k]))}

C30_WitnessMdyFirst ==
    /\ Returned
    /\ Len(page.trs) = 2
    /\ IntroEntries = {1, 2} /\ MdyIntroEntries = {2}
    /\ PwRowDate(page.trs[1]) = <<"January", " ", "5", ",", " ", "2023">>
    /\ pw.introduced_date = D_3_1

(***************************************************************************)
(* _date_from_href_str on its own.                                         *)
(***************************************************************************)
YearInputs == {Y2023, <<"1", "9", "9", "8">>}
MonthInputs == {<<"0", "1">>, <<"0", "4">>, <<"1", "0">>, <<"1", "2">>}
DayInputs == {<<"0", "1">>, <<"0", "5">>, <<"1", "5">>, <<"2", "0">>, <<"3", "1">>}

DigitInputs ==
    {Ymd(y, m, d) : y \in YearInputs, m \in MonthInputs, d \in DayInputs}
        \cup {<<"2", "0", "2", "3", "0", "4", "1">>,
              <<"2", "0", "2", "3", "0", "4", "1", "5", "9">>}

QueryInputs ==
    {[kind |-> "query", name |-> n, digits |-> d] :
        n \in {"hdate", "HDATE", "date", "actionDate", "ba", "update"}, d \in DigitInputs}
PathInputs ==
    {[kind |-> "path", name |-> n, digits |-> d] :
        n \in {"HJNL", "sjrnl", "docs"}, d \in DigitInputs}

HrefInputs ==
    {<<q>> : q \in QueryInputs} \cup {<<q>> : q \in PathInputs}
        \cup {HrefPath \o <<q>> : q \in QueryInputs}

HrefRecover ==
    /\ pc = "start"
    /\ recovered' = date_from_href_str(href)
    /\ pc' = "done"
    /\ UNCHANGED <<billno, page, rows, i, out, cosponsors, date, pw, href, callervars, mainvars, purevars>>

HrefInit ==
    /\ billno = <<>>
    /\ page = [kind |-> "none", trs |-> <<>>]
    /\ pc = "start"
    /\ rows = <<>>
    /\ i = 1
    /\ out = [k \in Keys |-> <<>>]
    /\ cosponsors = <<>>
    /\ date = <<>>
    /\ pw = PwIdle
    /\ href \in HrefInputs
    /\ recovered = <<>>
    /\ NoCaller /\ NoMain /\ NoPure

HrefNext == HrefRecover

SpecHref == HrefInit /\ [][HrefNext]_vars

\* the eight digits the href holds: those of a date parameter, else those of
\* a journal path
FoundYmd == IF YMD_IN_HREF(href) # <<>> THEN YMD_IN_HREF(href) ELSE YMD_IN_PATH(href)

NoLeadingZero(t) == t \in {ToString(n) : n \in SmallNums}

\* C8: the date recovered from the eight digits YYYYMMDD of an href is
\* M/D/YYYY: month and day with their values and without leading zeros, the
\* four year digits unchanged; hdate=20230415 gives 4/15/2023 and 20230105
\* gives 1/5/2023; the parameter name is matched case-insensitively.
C8_YmdToMdy ==
    Returned =>
        /\ FoundYmd = <<>> => recovered = <<>>
        /\ FoundYmd # <<>> =>
              /\ Len(recovered) = 5
              /\ recovered[2] = "/" /\ recovered[4] = "/"
              /\ NoLeadingZero(recovered[1])
              /\ IntOf(recovered[1]) = Int2(FoundYmd[5], FoundYmd[6])
              /\ NoLeadingZero(recovered[3])
              /\ IntOf(recovered[3]) = Int2(FoundYmd[7], FoundYmd[8])
              /\ recovered[5] = FoundYmd[1] \o FoundYmd[2] \o FoundYmd[3] \o FoundYmd[4]
        /\ FoundYmd = Ymd(Y2023, <<"0", "4">>, <<"1", "5">>) =>
              recovered = <<"4", "/", "15", "/", "2023">>
        /\ FoundYmd = Ymd(Y2023, <<"0", "1">>, <<"0", "5">>) =>
              recovered = <<"1", "/", "5", "/", "2023">>
        /\ (Len(href) = 1 /\ href[1].kind = "query" /\ Len(href[1].digits) >= 8) =>
              (recovered # <<>> <=> href[1].name \in {"hdate", "HDATE", "date", "actionDate"})

\* ?HDATE=20230105 gives 1/5/2023
C8_Witness ==
    /\ Returned
    /\ href = <<[kind |-> "query", name |-> "HDATE",
                 digits |-> Ymd(Y2023, <<"0", "1">>, <<"0", "5">>)]>>
    /\ recovered = <<"1", "/", "5", "/", "2023">>

(***************************************************************************)
(* One process calling the classifiers for several bills in turn.          *)
(***************************************************************************)
R_Sponsors ==
    Row(D_2_1, <<"Sponsors", " ", "added", ",", " ", "Smith", ",", " ", "Jones">>, <<>>)
R_Signed == Row(D_5_1, <<"Signed", " ", "by", " ", "Governor">>, <<>>)
R_ReadFirst == Row(D_1_15, <<"Read", " ", "first", " ", "time">>, <<>>)
R_Introduced == Row(D_3_1, <<"Introduced">>, <<>>)
R_PassedHouse == Row(D_2_1, <<"Passed", " ", "House">>, <<>>)
R_Withdrawn == Row(D_4_1, <<"Withdrawn">>, <<>>)

Call(p, bn, pg) == [parser |-> p, billno |-> bn, page |-> pg]

CallInputs ==
    { Call("html", <<"H", "F", "2", "7">>,
           [kind |-> "billAction", trs |-> <<R_Sponsors, R_Signed>>]),
      Call("html", <<"H", "F", "2", "7">>, [kind |-> "legacyHdr", trs |-> <<R_ReadFirst>>]),
      Call("html", <<"H", "R", "3">>, [kind |-> "legacyHdr", trs |-> <<R_ReadFirst>>]),
      Call("playwright", <<"H", "F", "2", "7">>,
           [kind |-> "billAction", trs |-> <<R_Introduced, R_PassedHouse>>]),
      Call("playwright", <<"H", "F", "2", "7">>,
           [kind |-> "billAction", trs |-> <<R_Withdrawn>>]),
      Call("playwright", <<"s", "f", "4", "5">>,
           [kind |-> "billAction", trs |-> <<R_ReadFirst>>]) }

\* the dict parse_dates_with_playwright returns
PwRecord(w) ==
    [k \in {"Introduced date", "Effective date", "Passed introduced chamber date",
            "Passed second chamber date", "Dead date", "Enacted (Y/N)", "Enacted Date"} |->
        CASE k = "Introduced date" -> w.introduced_date
          [] k = "Effective date" -> w.effective_date
          [] k = "Passed introduced chamber date" -> w.passed_intro_date
          [] k = "Passed second chamber date" -> w.passed_second_date
          [] k = "Dead date" -> w.dead_date
          [] k = "Enacted (Y/N)" -> w.enacted_flag
          [] k = "Enacted Date" -> w.enacted_date]

\* process_bill calls the classifier for the next bill; the classifier's
\* variables are whatever the previous call left
CallNext ==
    /\ pc = "idle"
    /\ todo # <<>>
    /\ parser' = Head(todo).parser
    /\ billno' = Head(todo).billno
    /\ page' = Head(todo).page
    /\ todo' = Tail(todo)
    /\ pc' = "start"
    /\ UNCHANGED <<rows, i, out, cosponsors, date, pw, href, recovered, calls,
                   mainvars, purevars>>

\* status = parse_bill_history_fields(...) / dates = parse_dates_with_playwright(...)
CallReturn ==
    /\ pc = "done"
    /\ calls' = Append(calls, [parser |-> parser, billno |-> billno, page |-> page,
                               record |-> IF parser = "html" THEN out ELSE PwRecord(pw)])
    /\ pc' = "idle"
    /\ UNCHANGED <<billno, page, rows, i, out, cosponsors, date, pw, href, recovered,
                   parser, todo, mainvars, purevars>>

SeqInit ==
    /\ billno = <<>>
    /\ page = [kind |-> "none", trs |-> <<>>]
    /\ pc = "idle"
    /\ rows = <<>>
    /\ i = 1
    /\ out = [k \in Keys |-> <<>>]
    /\ cosponsors = <<>>
    /\ date = <<>>
    /\ pw = PwIdle
    /\ href = <<>>
    /\ recovered = <<>>
    /\ parser = ""
    /\ todo \in SeqsUpTo(CallInputs, MaxCalls) \ {<<>>}
    /\ calls = <<>>
    /\ NoMain /\ NoPure

SeqNext ==
    \/ CallNext
    \/ parser = "html" /\ HtmlNext
    \/ parser = "playwright" /\ PwNext
    \/ CallReturn

SpecSeq == SeqInit /\ [][SeqNext]_vars

SameInput(a, b) ==
    /\ a.parser = b.parser
    /\ a.page = b.page
    /\ infer_chamber_from_billno(a.billno) = infer_chamber_from_billno(b.billno)

\* C14: the record a classifier returns is a function of the history and the
\* origin alone: any two calls of one process with the same history and the
\* same origin return the same record, whatever was classified before or
\* between them.
C14_PureClassifier ==
    \A a, b \in 1..Len(calls) : SameInput(calls[a], calls[b]) => calls[a].record = calls[b].record

\* a bill classified before and after another bill that has cosponsors and
\* an enactment: both records are the baseline
C14_Witness ==
    /\ Len(calls) = 3
    /\ SameInput(calls[1], calls[3])
    /\ calls[1].billno # calls[3].billno
    /\ calls[2].parser = "html"
    /\ calls[2].record["Cosponsor"] # <<>>
    /\ calls[2].record["Enacted (Y/N)"] = Y
    /\ calls[3].record = calls[1].record
    /\ calls[3].record["Cosponsor"] = <<>>

(***************************************************************************)
(* Cosponsors collected from the action log, in three scripts.             *)
(***************************************************************************)
Contains(line, toks) == \E k \in 1..Len(line) : ExactAt(line, k, toks)

MaxOf(S) == CHOOSE k \in S : \A j \in S : j <= k

\* the positions just after a match of phrase "p1" or "p2" that is followed
\* by whitespace (the \s+ of the patterns)
EndsAfter(line, p1, p2) ==
    {e \in 1..Len(line) :
        /\ IsWS(line[e])
        /\ \E p \in {p1, p2} : e > Len(p) /\ ExactAt(line, e - Len(p), p)}

IlAdded == <<"Added", " ", "as", " ", "Co", "-", "Sponsor">>
IlAddedChief == <<"Added", " ", "as", " ", "Chief", " ", "Co", "-", "Sponsor">>

\* re.sub(r"\s*\[[^\]]+\]\s*$", "", nm)
BracketCut(nm) ==
    LET t == DropTrailingWS(nm)
        opens == {k \in 1..Len(t) :
                    /\ t[k] = "[" /\ t[Len(t)] = "]" /\ k + 1 < Len(t)
                    /\ \A j \in (k + 1)..(Len(t) - 1) : t[j] # "]"}
    IN  IF opens = {} THEN nm ELSE DropTrailingWS(SubSeq(t, 1, MinOf(opens) - 1))

\* the name collect_cosponsors_from_actions takes from one line (<<>>: none)
IlLineNames(line) ==
    IF ~(Contains(line, IlAdded) \/ Contains(line, IlAddedChief)) THEN <<>>
    ELSE LET ends == EndsAfter(line, IlAdded, IlAddedChief)
             nm1 == IF ends = {} THEN line
                    ELSE DropWS(SubSeq(line, MaxOf(ends), Len(line)))
             semi == {k \in 1..Len(nm1) : nm1[k] = ";"}
             nm2 == IF semi = {} THEN nm1
                    ELSE DropTrailingWS(SubSeq(nm1, 1, MinOf(semi) - 1))
             nm == Strip(BracketCut(nm2))
         IN  IF nm # <<>> THEN <<nm>> ELSE <<>>

P2Added == <<"Added", " ", "Co", "-", "Sponsor">>
P2AddedChief == <<"Added", " ", "Chief", " ", "Co", "-", "Sponsor">>

\* the name cosponsors_from_actions takes from one line
P2LineNames(line) ==
    IF ~(Contains(line, P2Added) \/ Contains(line, P2AddedChief)) THEN <<>>
    ELSE LET ends == EndsAfter(line, P2Added, P2AddedChief)
         IN  IF ends = {} THEN <<>>
             ELSE <<clean(SubSeq(line, MinOf(ends), Len(line)))>>

\* the names one line of the log adds, per script
LineNames(script, line) ==
    CASE script = "scrapeiowa5" -> SPONSORS(clean(line)).names
      [] script = "phase2_enrichment_scrape_illinois" -> IlLineNames(line)
      [] script = "phase2test" -> P2LineNames(line)

RECURSIVE AddedNames(_, _)
AddedNames(script, log) ==
    IF log = <<>> THEN <<>>
    ELSE LineNames(script, Head(log)) \o AddedNames(script, Tail(log))

\* the cosponsor list each script ends with, before it is joined
CosponsorList(script, log) ==
    CASE script = "scrapeiowa5" -> Uniq(AddedNames(script, log), {})
      [] script = "phase2_enrichment_scrape_illinois" -> Uniq(AddedNames(script, log), {})
      [] script = "phase2test" -> AddedNames(script, log)

CosScripts == {"scrapeiowa5", "phase2_enrichment_scrape_illinois", "phase2test"}

CosLines ==
    { <<"Sponsors", " ", "added", ",", " ", "Smith", ",", " ", "Jones", ";", " ", "Smith">>,
      <<"Sponsor", " ", "added", " ", "Jones">>,
      <<"Added", " ", "as", " ", "Co", "-", "Sponsor", " ", "Rep", ".", " ", "Smith">>,
      <<"Added", " ", "as", " ", "Chief", " ", "Co", "-", "Sponsor", " ", "Rep", ".", " ",
        "Jones", ";", " ", "Rule", " ", "19">>,
      <<"Added", " ", "as", " ", "Co", "-", "Sponsor", " ", "Rep", ".", " ", "Smith", " ",
        "[", "D", "]">>,
      <<"Added", " ", "Co", "-", "Sponsor", " ", "Rep", ".", " ", "Smith">>,
      <<"Added", " ", "Chief", " ", "Co", "-", "Sponsor", " ", "Rep", ".", " ", "Jones">>,
      <<"Read", " ", "first", " ", "time">> }

CosCollect ==
    /\ pc = "start"
    /\ result' = CosponsorList(scraper, arg)
    /\ pc' = "done"
    /\ UNCHANGED <<billno, page, rows, i, out, cosponsors, date, pw, href, recovered,
                   callervars, mainvars, arg>>

CosInit ==
    /\ billno = <<>>
    /\ page = [kind |-> "none", trs |-> <<>>]
    /\ pc = "start"
    /\ rows = <<>>
    /\ i = 1
    /\ out = [k \in Keys |-> <<>>]
    /\ cosponsors = <<>>
    /\ date = <<>>
    /\ pw = PwIdle
    /\ href = <<>>
    /\ recovered = <<>>
    /\ NoCaller
    /\ scraper \in CosScripts
    /\ sessions = <<>> /\ ga = 0 /\ ga_links = <<>> /\ seen_bills = {}
    /\ collected = <<>> /\ phase = "" /\ csv = <<>> /\ failed_urls = {}
    /\ arg \in SeqsUpTo(CosLines, MaxLines)
    /\ result = <<>>

CosNext == CosCollect

SpecCos == CosInit /\ [][CosNext]_vars

FirstAt(s, x) == MinOf({k \in 1..Len(s) : s[k] = x})

\* C15: in each script the cosponsor list holds every added name exactly
\* once, in the order of the names' first appearance in the log.
C15_CosponsorsDeduped ==
    pc = "done" =>
        LET added == AddedNames(scraper, arg)
        IN  /\ \A a, b \in 1..Len(result) : result[a] = result[b] => a = b
            /\ {result[k] : k \in 1..Len(result)} = {added[k] : k \in 1..Len(added)}
            /\ \A a, b \in 1..Len(result) :
                   a < b => FirstAt(added, result[a]) < FirstAt(added, result[b])

\* the same property for the two scripts that de-duplicate
C15_DedupingScripts ==
    scraper # "phase2test" => C15_CosponsorsDeduped

(***************************************************************************)
(* The main loops of scrapeiowa5, date_tester and illinois_scraper_1_test. *)
(***************************************************************************)
MainScripts == {"scrapeiowa5", "date_tester", "illinois_scraper_1_test"}

Link(bn, u) == [billno |-> bn, url |-> u]

\* what enumerate_bill_links_via_directory can return for a GA: upper-cased
\* bill numbers, no (bill number, url) pair twice
IowaLinks ==
    { Link(<<"H", "F", "2", "7">>, "BillBook?ba=HF27"),
      Link(<<"H", "F", "2", "7">>, "BillBook?ba=HF+27"),
      Link(<<"S", "F", "4", "5">>, "BillBook?ba=SF45") }

\* what enumerate_bill_list can return for a session and document type: no
\* document number twice
IllinoisLinks ==
    { Link(<<"H", "B", "2", "7">>, "BillStatus?DocNum=27"),
      Link(<<"H", "B", "4", "5">>, "BillStatus?DocNum=45") }

LinkLists(script) ==
    LET from == IF script = "illinois_scraper_1_test" THEN IllinoisLinks ELSE IowaLinks
    IN  {l \in SeqsUpTo(from, MaxLinks) : \A a, b \in 1..Len(l) : l[a] = l[b] => a = b}

RECURSIVE UpperAll(_)
UpperAll(bn) == IF bn = <<>> THEN <<>> ELSE <<Upper(Head(bn))>> \o UpperAll(Tail(bn))

\* a faulty variant of KeyOf: the link's url is part of the key
KeyOf_by_url(script, g, l) == <<g, UpperAll(l.billno), l.url>>

\* key = f"{ga}:{billno.upper()}" / (ga, billno.upper()) /
\* (ref.session_id, ref.doctype, ref.docnum)
KeyOf(script, g, l) ==
    IF script = "illinois_scraper_1_test" THEN <<g, l.billno>> ELSE <<g, UpperAll(l.billno)>>

Visit(l, o) == [ga |-> ga, billno |-> l.billno, url |-> l.url, outcome |-> o]

\* for ga in range(GA_START, GA_END + 1): links = enumerate...(ga)
MainNextGA ==
    /\ phase = "ga"
    /\ sessions # <<>>
    /\ ga' = ga + 1
    /\ ga_links' = Head(sessions)
    /\ sessions' = Tail(sessions)
    /\ phase' = "bills"
    /\ UNCHANGED <<billno, page, pc, rows, i, out, cosponsors, date, pw, href, recovered,
                   callervars, scraper, seen_bills, collected, csv, failed_urls, purevars>>

\* if key in seen: continue
MainSkipSeen ==
    /\ phase = "bills"
    /\ ga_links # <<>>
    /\ KeyOf(scraper, ga, Head(ga_links)) \in seen_bills
    /\ ga_links' = Tail(ga_links)
    /\ calls' = Append(calls, Visit(Head(ga_links), "seen"))
    /\ UNCHANGED <<billno, page, pc, rows, i, out, cosponsors, date, pw, href, recovered,
                   parser, todo, scraper, sessions, ga, seen_bills, collected, phase, csv, failed_urls,
                   purevars>>

\* process_bill returns a row: seen.add(key); rows.append(row)
MainRow ==
    /\ phase = "bills"
    /\ ga_links # <<>>
    /\ KeyOf(scraper, ga, Head(ga_links)) \notin seen_bills
    /\ seen_bills' = seen_bills \cup {KeyOf(scraper, ga, Head(ga_links))}
    /\ collected' = Append(collected, [ga |-> ga, billno |-> Head(ga_links).billno,
                                       url |-> Head(ga_links).url])
    /\ ga_links' = Tail(ga_links)
    /\ calls' = Append(calls, Visit(Head(ga_links), "row"))
    /\ UNCHANGED <<billno, page, pc, rows, i, out, cosponsors, date, pw, href, recovered,
                   parser, todo, scraper, sessions, ga, phase, csv, failed_urls, purevars>>

\* process_bill returns None (fetch(url) failed and was caught, or no text,
\* or no keyword hit); the Illinois loop has added the key before
MainNoRow ==
    /\ phase = "bills"
    /\ ga_links # <<>>
    /\ KeyOf(scraper, ga, Head(ga_links)) \notin seen_bills
    /\ calls' = Append(calls, Visit(Head(ga_links), "none"))
    /\ seen_bills' = IF scraper = "illinois_scraper_1_test"
                     THEN seen_bills \cup {KeyOf(scraper, ga, Head(ga_links))}
                     ELSE seen_bills
    /\ ga_links' = Tail(ga_links)
    /\ UNCHANGED <<billno, page, pc, rows, i, out, cosponsors, date, pw, href, recovered,
                   parser, todo, scraper, sessions, ga, collected, phase, csv, failed_urls, purevars>>

\* process_bill raises: "except Exception: row = None" in date_tester and the
\* Illinois script; scrapeiowa5's main has no handler and the run ends
MainRaised ==
    /\ phase = "bills"
    /\ ga_links # <<>>
    /\ KeyOf(scraper, ga, Head(ga_links)) \notin seen_bills
    /\ calls' = Append(calls, Visit(Head(ga_links), "raised"))
    /\ IF scraper = "scrapeiowa5"
       THEN /\ phase' = "aborted"
            /\ UNCHANGED <<ga_links, seen_bills>>
       ELSE /\ phase' = phase
            /\ ga_links' = Tail(ga_links)
            /\ seen_bills' = IF scraper = "illinois_scraper_1_test"
                             THEN seen_bills \cup {KeyOf(scraper, ga, Head(ga_links))}
                             ELSE seen_bills
    /\ UNCHANGED <<billno, page, pc, rows, i, out, cosponsors, date, pw, href, recovered,
                   parser, todo, scraper, sessions, ga, collected, csv, failed_urls, purevars>>

\* the links of the GA are exhausted
MainGADone ==
    /\ phase = "bills"
    /\ ga_links = <<>>
    /\ phase' = "ga"
    /\ UNCHANGED <<billno, page, pc, rows, i, out, cosponsors, date, pw, href, recovered,
                   callervars, scraper, sessions, ga, ga_links, seen_bills, collected, csv, failed_urls,
                   purevars>>

\* w.writeheader(); w.writerows(rows)
MainWrite ==
    /\ phase = "ga"
    /\ sessions = <<>>
    /\ csv' = collected
    /\ phase' = "done"
    /\ UNCHANGED <<billno, page, pc, rows, i, out, cosponsors, date, pw, href, recovered,
                   callervars, scraper, sessions, ga, ga_links, seen_bills, collected,
                   failed_urls, purevars>>

MainInit ==
    /\ billno = <<>>
    /\ page = [kind |-> "none", trs |-> <<>>]
    /\ pc = ""
    /\ rows = <<>>
    /\ i = 1
    /\ out = [k \in Keys |-> <<>>]
    /\ cosponsors = <<>>
    /\ date = <<>>
    /\ pw = PwIdle
    /\ href = <<>>
    /\ recovered = <<>>
    /\ NoCaller /\ NoPure
    /\ scraper \in MainScripts
    /\ sessions \in [1..MaxGA -> LinkLists(scraper)]
    /\ ga = 0
    /\ ga_links = <<>>
    /\ seen_bills = {}
    /\ collected = <<>>
    /\ phase = "ga"
    /\ csv = <<>> /\ failed_urls = {}

MainNext ==
    \/ MainNextGA
    \/ MainSkipSeen
    \/ MainRow
    \/ MainNoRow
    \/ MainRaised
    \/ MainGADone
    \/ MainWrite

SpecMain == MainInit /\ [][MainNext]_vars

RECURSIVE RowsOfVisits(_)
RowsOfVisits(v) ==
    IF v = <<>> THEN <<>>
    ELSE (IF Head(v).outcome = "row"
          THEN <<[ga |-> Head(v).ga, billno |-> Head(v).billno, url |-> Head(v).url]>>
          ELSE <<>>) \o RowsOfVisits(Tail(v))

\* C16: a failure while one bill is processed never ends the run; the bill
\* emits no row (the collected rows are those of the bills whose processing
\* returned one), and when main() ends every link was visited and the CSV
\* holds the collected rows.
C16_FailureSkipsBill ==
    /\ phase # "aborted"
    /\ collected = RowsOfVisits(calls)
    /\ phase = "done" => (csv = collected /\ sessions = <<>> /\ ga_links = <<>>)

\* the same property for the two scripts whose loop has an exception handler
C16_HandlingScripts ==
    scraper # "scrapeiowa5" => C16_FailureSkipsBill

IdChars == {"H", "h", "S", "s", "c", "F", "B", "R", "C", "J", "2"}

InferApply ==
    /\ pc = "start"
    /\ result' = infer_chamber_from_billno(arg)
    /\ pc' = "done"
    /\ UNCHANGED <<billno, page, rows, i, out, cosponsors, date, pw, href, recovered,
                   callervars, mainvars, arg>>

InferInit ==
    /\ billno = <<>>
    /\ page = [kind |-> "none", trs |-> <<>>]
    /\ pc = "start"
    /\ rows = <<>>
    /\ i = 1
    /\ out = [k \in Keys |-> <<>>]
    /\ cosponsors = <<>>
    /\ date = <<>>
    /\ pw = PwIdle
    /\ href = <<>>
    /\ recovered = <<>>
    /\ NoCaller /\ NoMain
    /\ arg \in SeqsUpTo(IdChars, MaxIdLen)
    /\ result = <<>>

InferNext == InferApply

SpecInfer == InferInit /\ [][InferNext]_vars

HasPrefix(s, P) == \E p \in P : Len(p) <= Len(s) /\ SubSeq(s, 1, Len(p)) = p

\* C17: infer_chamber_from_billno returns a value for every identifier: House
\* exactly when the upper-cased identifier starts with HF, HSB, HR, HCR or
\* HCJ, Senate exactly when it starts with SF, SSB, SR, SCR or SCJ, "" in
\* every other case; no identifier starts with a prefix of both tables.
C17_InferChamberTotal ==
    pc = "done" =>
        LET up == UpperAll(arg)
            h == HasPrefix(up, {<<"H", "F">>, <<"H", "S", "B">>, <<"H", "R">>,
                                <<"H", "C", "R">>, <<"H", "C", "J">>})
            sn == HasPrefix(up, {<<"S", "F">>, <<"S", "S", "B">>, <<"S", "R">>,
                                 <<"S", "C", "R">>, <<"S", "C", "J">>})
        IN  /\ ~(h /\ sn)
            /\ h => result = <<"House">>
            /\ sn => result = <<"Senate">>
            /\ ~(h \/ sn) => result = <<>>
            /\ result = infer_chamber_from_billno(up)

\* a mixed-case study-bill identifier
C17_Witness ==
    /\ pc = "done"
    /\ arg = <<"h", "S", "B", "2">>
    /\ result = <<"House">>

(***************************************************************************)
(* The classifiers on histories that differ in whitespace only.            *)
(***************************************************************************)
WsRows ==
    { Row(D_2_1, <<"Passed", " ", "House", ",", " ", "80", "-", "10">>, <<>>),
      Row(D_5_1, <<"Signed", " ", "by", " ", "Governor">>, <<>>),
      Row(<<>>, <<"Died", " ", "in", " ", "SENATE">>, <<HrefPath>>),
      Row(<<>>, <<"Effective", " ", "date", " ", "7", "/", "1", "/", "2023">>, <<>>),
      Row(<<>>, <<"Introduced", " ", "January", " ", "5", ",", " ", "2023">>, <<>>),
      Row(D_2_1, <<"Sponsors", " ", "added", ",", " ", "Smith", ",", " ", "Jones", ";",
                   " ", "Smith">>, <<>>),
      Row(D_1_15, <<"Read", " ", "first", " ", "time">>, <<>>) }

\* the text with every whitespace character between words replaced by
\* another kind of whitespace (n = 1) or by a run of two (n = 2)
RECURSIVE Noisy(_, _)
Noisy(t, n) ==
    IF t = <<>> THEN <<>>
    ELSE (IF ~IsWS(Head(t)) THEN <<Head(t)>>
          ELSE IF n = 1 THEN <<"\t">> ELSE <<" ", "\t">>) \o Noisy(Tail(t), n)

NoisyPage(pg, n) ==
    [pg EXCEPT !.trs = [k \in 1..Len(pg.trs) |-> [pg.trs[k] EXCEPT !.text = Noisy(@, n)]]]

WsPages ==
    {[kind |-> k, trs |-> h] :
        k \in {"billAction", "legacyTable"}, h \in SeqsUpTo(WsRows, MaxRows) \ {<<>>}}

\* one history classified as it is and then with its whitespace changed
WsInit ==
    /\ billno = <<>>
    /\ page = [kind |-> "none", trs |-> <<>>]
    /\ pc = "idle"
    /\ rows = <<>>
    /\ i = 1
    /\ out = [k \in Keys |-> <<>>]
    /\ cosponsors = <<>>
    /\ date = <<>>
    /\ pw = PwIdle
    /\ href = <<>>
    /\ recovered = <<>>
    /\ parser = ""
    /\ \E pg \in WsPages, n \in {1, 2} :
          \/ todo = <<Call("html", <<"H", "F", "2", "7">>, pg),
                      Call("html", <<"H", "F", "2", "7">>, NoisyPage(pg, n))>>
          \/ /\ pg.kind = "billAction"
             /\ todo = <<Call("playwright", <<"H", "F", "2", "7">>, pg),
                         Call("playwright", <<"H", "F", "2", "7">>, NoisyPage(pg, n))>>
    /\ calls = <<>>
    /\ NoMain /\ NoPure

SpecWs == WsInit /\ [][SeqNext]_vars

TextsOf(pg) == {pg.trs[k].text : k \in 1..Len(pg.trs)}

\* C18: the action text is normalised before the predicates are applied
\* (normalising is idempotent and erases the amount and kind of whitespace),
\* so a history and the same history with other whitespace between its words
\* get the same record.
C18_WhitespaceInsensitive ==
    /\ \A c \in {calls[k] : k \in 1..Len(calls)} : \A t \in TextsOf(c.page) :
          /\ clean(clean(t)) = clean(t)
          /\ clean(Noisy(t, 1)) = clean(t) /\ clean(Noisy(t, 2)) = clean(t)
    /\ Len(calls) = 2 => calls[1].record = calls[2].record

\* the same property for parse_bill_history_fields alone
C18_HtmlParser ==
    parser = "html" => C18_WhitespaceInsensitive

(***************************************************************************)
(* parse_actions_for_dates of the Illinois scripts.                        *)
(***************************************************************************)
IlScripts == {"phase2_enrichment_scrape_illinois", "phase2test", "illinois_scraper_1_test"}

PunctTokens == {",", ";", "/", "-", ".", "(", ")", "[", "]", ":"}

\* a token matching \w+
IsWord(t) == ~IsWS(t) /\ t \notin PunctTokens

\* ACTION_ROW_RE.match(line): r"^\s*(\d{1,2}/\d{1,2}/\d{4})\s+(\w+)\s+(.*)$"
ACTION_ROW_RE(line) ==
    LET t == DropWS(line)
        r == IF Len(t) >= 6 THEN DropWS(SubSeq(t, 6, Len(t))) ELSE <<>>
    IN  IF /\ MdyDateAt(t, 1) /\ Len(t) >= 6 /\ IsWS(t[6])
           /\ Len(r) >= 2 /\ IsWord(r[1]) /\ IsWS(r[2])
        THEN [matched |-> TRUE, date |-> SubSeq(t, 1, 5), chamber |-> r[1],
              action |-> DropWS(SubSeq(r, 2, Len(r)))]
        ELSE [matched |-> FALSE, date |-> <<>>, chamber |-> "", action |-> <<>>]

DeadTags ==
    { <<"Session", " ", "Sine", " ", "Die">>,
      <<"Re", "-", "referred", " ", "to", " ", "Rules", " ", "Committee">>,
      <<"Rule", " ", "19", "(", "a", ")">>,
      <<"Rule", " ", "3", "-", "9", "(", "a", ")">>,
      <<"Vetoed">>,
      <<"Amendatory", " ", "Veto", " ", "Overridden", " ", "-", " ", "Fail">> }

\* any(tag in action for tag in [...])
HasDeadTag(action) == \E tag \in DeadTags : Contains(action, tag)

IlLocals ==
    [introduced_date |-> <<>>, passed_first_chamber |-> <<>>, passed_second_chamber |-> <<>>,
     effective_date |-> <<>>, enacted_date |-> <<>>, dead_date |-> <<>>]

\* if any(tag in action ...): dead_date = date
IlDead(w, d, action) ==
    IF HasDeadTag(action) THEN [w EXCEPT !.dead_date = d] ELSE w

\* the body of "for line in actions_text" for one line
IlMapLine(script, w, line0, origin_chamber) ==
    LET line == IF script = "illinois_scraper_1_test" THEN clean(line0) ELSE line0
        m == ACTION_ROW_RE(line)
        d == m.date
        chamber == IF script = "phase2test" THEN Title(m.chamber) ELSE m.chamber
        action == m.action
        other_chamber == IF origin_chamber = "House" THEN "Senate" ELSE "House"
        filed == IF script = "phase2test" THEN Contains(action, <<"Prefiled">>)
                 ELSE Contains(action, <<"Filed", " ", "with", " ", "Secretary">>)
        third == Contains(action, <<"Third", " ", "Reading">>) /\ Contains(action, <<"Passed">>)
        w1 == IF /\ w.introduced_date = <<>>
                 /\ \/ filed
                    \/ Contains(action, <<"First", " ", "Reading">>) /\ chamber = origin_chamber
              THEN [w EXCEPT !.introduced_date = d] ELSE w
        w2 == IF w1.passed_first_chamber = <<>> /\ third /\ chamber = origin_chamber
              THEN [w1 EXCEPT !.passed_first_chamber = d] ELSE w1
        w3 == IF w2.passed_second_chamber = <<>> /\ third /\ chamber = other_chamber
              THEN [w2 EXCEPT !.passed_second_chamber = d] ELSE w2
        w4 == IF Contains(action, <<"Governor", " ", "Approved">>) /\ w3.enacted_date = <<>>
              THEN [w3 EXCEPT !.enacted_date = d] ELSE w3
        w5 == IF Contains(action, <<"Effective", " ", "Date">>) /\ w4.effective_date = <<>>
              THEN [w4 EXCEPT !.effective_date = d] ELSE w4
    IN  IF ~m.matched THEN w ELSE IlDead(w5, d, action)

IlLine(d, chamber, action) == d \o <<" ", chamber, " ">> \o action

D_1_10_24 == <<"1", "/", "10", "/", "2024">>

IlLines ==
    { <<"Date", " ", "Chamber", " ", "Action">>,
      IlLine(D_1_15, "House", <<"First", " ", "Reading">>),
      IlLine(D_2_1, "House", <<"Third", " ", "Reading", " ", "-", " ", "Passed", ";", " ",
                              "080", "-", "010", "-", "000">>),
      IlLine(D_3_1, "Senate", <<"Third", " ", "Reading", " ", "-", " ", "Passed">>),
      IlLine(D_5_1, "House", <<"Governor", " ", "Approved">>),
      IlLine(D_3_1, "House", <<"Rule", " ", "19", "(", "a", ")", " ", "/", " ", "Re", "-",
                              "referred", " ", "to", " ", "Rules", " ", "Committee">>),
      IlLine(D_4_1, "House", <<"Governor", " ", "Vetoed">>),
      IlLine(D_1_10_24, "House", <<"Session", " ", "Sine", " ", "Die">>) }

\* the locals are initialised
IlBegin ==
    /\ pc = "start"
    /\ result' = IlLocals
    /\ i' = 1
    /\ pc' = "loop"
    /\ UNCHANGED <<billno, page, rows, out, cosponsors, date, pw, href, recovered,
                   callervars, mainvars, arg>>

\* one iteration of "for line in actions_text"
IlStep ==
    /\ pc = "loop"
    /\ i <= Len(arg.actions_text)
    /\ result' = IlMapLine(scraper, result, arg.actions_text[i], arg.origin_chamber)
    /\ i' = i + 1
    /\ UNCHANGED <<billno, page, pc, rows, out, cosponsors, date, pw, href, recovered,
                   callervars, mainvars, arg>>

\* return {...}
IlReturn ==
    /\ pc = "loop"
    /\ i > Len(arg.actions_text)
    /\ pc' = "done"
    /\ UNCHANGED <<billno, page, rows, i, out, cosponsors, date, pw, href, recovered,
                   callervars, mainvars, purevars>>

IlInit ==
    /\ billno = <<>>
    /\ page = [kind |-> "none", trs |-> <<>>]
    /\ pc = "start"
    /\ rows = <<>>
    /\ i = 1
    /\ out = [k \in Keys |-> <<>>]
    /\ cosponsors = <<>>
    /\ date = <<>>
    /\ pw = PwIdle
    /\ href = <<>>
    /\ recovered = <<>>
    /\ NoCaller
    /\ scraper \in IlScripts
    /\ sessions = <<>> /\ ga = 0 /\ ga_links = <<>> /\ seen_bills = {}
    /\ collected = <<>> /\ phase = "" /\ csv = <<>> /\ failed_urls = {}
    /\ arg \in [actions_text : SeqsUpTo(IlLines, MaxLines), origin_chamber : {"House", "Senate"}]
    /\ result = <<>>

\* Public Act identifiers PA_RE finds in the page text ("" when none) and
\* effective-date literals EFF_DATE_RE finds there
ActIdentifiers == {<<>>, <<"103", "-", "0001">>}
EffectiveLiterals == {<<>>, <<"January", " ", "1", ",", " ", "2024">>}

\* the record the caller builds from the dates and the page text
IlRecord(dates, act_identifier, effective_literal) ==
    [k \in {"Act identifier", "Introduced date", "Effective date",
             "Passed introduced chamber date", "Passed second chamber date",
             "Dead date", "Enacted (Y/N)", "Enacted Date"} |->
        CASE k = "Act identifier" -> act_identifier
          [] k = "Introduced date" -> dates.introduced_date
          [] k = "Effective date" ->
                 IF effective_literal # <<>> /\ dates.effective_date = <<>>
                 THEN effective_literal ELSE dates.effective_date
          [] k = "Passed introduced chamber date" -> dates.passed_first_chamber
          [] k = "Passed second chamber date" -> dates.passed_second_chamber
          [] k = "Dead date" -> dates.dead_date
          [] k = "Enacted (Y/N)" -> IF act_identifier # <<>> THEN Y ELSE <<>>
          [] k = "Enacted Date" -> dates.enacted_date]

\* the caller of parse_actions_for_dates reads the page text and returns
\* the record
IlEnrich ==
    /\ pc = "done"
    /\ \E act_identifier \in ActIdentifiers, effective_literal \in EffectiveLiterals :
          out' = IlRecord(result, act_identifier, effective_literal)
    /\ pc' = "recorded"
    /\ UNCHANGED <<billno, page, rows, i, cosponsors, date, pw, href, recovered,
                   callervars, mainvars, purevars>>

IlNext ==
    \/ IlBegin
    \/ IlStep
    \/ IlReturn
    \/ IlEnrich

SpecIl == IlInit /\ [][IlNext]_vars

\* the action lines read so far that carry a dead tag
DeadLinesRead ==
    {k \in 1..(i - 1) :
        /\ ACTION_ROW_RE(arg.actions_text[k]).matched
        /\ HasDeadTag(ACTION_ROW_RE(arg.actions_text[k]).action)}

\* C20: dead_date is the date of the first action line carrying a dead tag;
\* later dead-tagged lines do not change it.
C20_DeadDateFirst ==
    (pc \in {"loop", "done"} /\ DeadLinesRead # {}) =>
        result.dead_date = ACTION_ROW_RE(arg.actions_text[MinOf(DeadLinesRead)]).date

\* what the loop does instead: the last dead-tagged line read gives the date
C20_DeadDateLast ==
    pc \in {"loop", "done"} =>
        result.dead_date =
            IF DeadLinesRead = {} THEN <<>>
            ELSE ACTION_ROW_RE(arg.actions_text[MaxOf(DeadLinesRead)]).date

\* the action lines, of all those of the page, that carry "Governor Approved"
GovernorLines ==
    {k \in 1..Len(arg.actions_text) :
        LET line == IF scraper = "illinois_scraper_1_test"
                    THEN clean(arg.actions_text[k]) ELSE arg.actions_text[k]
        IN  /\ ACTION_ROW_RE(line).matched
            /\ Contains(ACTION_ROW_RE(line).action, <<"Governor", " ", "Approved">>)}

\* C24: when an action line matches "Governor Approved" the record has
\* Enacted (Y/N) = Y and the date of that action as Enacted Date, and
\* Enacted (Y/N) is Y only if such an action was seen.
C24_EnactedFromApproval ==
    pc = "recorded" =>
        /\ GovernorLines # {} =>
              /\ out["Enacted (Y/N)"] = Y
              /\ out["Enacted Date"] = ACTION_ROW_RE(arg.actions_text[MinOf(GovernorLines)]).date
        /\ out["Enacted (Y/N)"] = Y => GovernorLines # {}

\* what the callers do instead: the flag follows the Public Act identifier
\* found in the page text, the date follows the action lines
C24_EnactedFromActIdentifier ==
    pc = "recorded" =>
        /\ out["Enacted (Y/N)"] = Y <=> out["Act identifier"] # <<>>
        /\ out["Enacted Date"] =
              IF GovernorLines = {} THEN <<>>
              ELSE ACTION_ROW_RE(arg.actions_text[MinOf(GovernorLines)]).date

(***************************************************************************)
(* OhioLegislatureScraper.get_bill_status.                                 *)
(***************************************************************************)
\* status_info = {...}
OhStatusInfo ==
    [introduced_date |-> <<>>, effective_date |-> <<>>, passed_first_chamber |-> <<>>,
     passed_second_chamber |-> <<>>, dead_date |-> <<>>, enacted |-> N, enacted_date |-> <<>>]

LowerAll(t) == [k \in 1..Len(t) |-> Lower(t[k])]

\* word in action_lower, a substring test: the tokens of the vocabulary
\* that hold the word
OhWordIn(word, action_lower) ==
    \E k \in 1..Len(action_lower) :
        \/ action_lower[k] = word
        \/ word = "introduced" /\ action_lower[k] = "reintroduced"

OhDeadWords == {"withdrawn", "died", "failed", "rejected", "vetoed"}

\* the branch of the if/elif chain a row's action text and chamber select
OhBranch(chamber, action) ==
    LET action_lower == LowerAll(action)
    IN  IF OhWordIn("introduced", action_lower) THEN "introduced"
        ELSE IF OhWordIn("effective", action_lower) THEN "effective"
        ELSE IF Contains(action_lower, <<"signed", " ", "by", " ", "the", " ", "governor">>)
             THEN "signed"
        ELSE IF OhWordIn("passed", action_lower) /\ chamber # "" THEN "passed"
        ELSE IF \E w \in OhDeadWords : OhWordIn(w, action_lower) THEN "dead"
        ELSE "none"

\* the rows that reach the classification: date cell with a span, action cell
OhClassified(row) == row.date_cell = "span" /\ row.action_cell

\* status_info['enacted'] = 'Y'; status_info['enacted_date'] = date
OhSigned(s, d) == [s EXCEPT !.enacted = Y, !.enacted_date = d]

\* the body of "for row in rows" for one row
OhMapRow(s, row, bill_type) ==
    LET originating_chamber == IF bill_type = "SB" THEN "Senate" ELSE "House"
        second_chamber == IF bill_type = "SB" THEN "House" ELSE "Senate"
        d == Strip(row.date)
        chamber == row.chamber
        b == OhBranch(chamber, Strip(row.action))
    IN  IF ~OhClassified(row) THEN s
        ELSE IF b = "introduced" THEN [s EXCEPT !.introduced_date = d]
        ELSE IF b = "effective" THEN [s EXCEPT !.effective_date = d]
        ELSE IF b = "signed" THEN OhSigned(s, d)
        ELSE IF b = "passed" THEN
            IF chamber = originating_chamber
            THEN (IF s.passed_first_chamber = <<>>
                  THEN [s EXCEPT !.passed_first_chamber = d] ELSE s)
            ELSE IF chamber = second_chamber
            THEN (IF s.passed_second_chamber = <<>>
                  THEN [s EXCEPT !.passed_second_chamber = d] ELSE s)
            ELSE s
        ELSE IF b = "dead" THEN
            (IF s.dead_date = <<>> THEN [s EXCEPT !.dead_date = d] ELSE s)
        ELSE s

OhRow(dc, d, ch, ac, a) ==
    [date_cell |-> dc, date |-> d, chamber |-> ch, action_cell |-> ac, action |-> a]

OhSignedText == <<"Signed", " ", "by", " ", "the", " ", "Governor">>

OhRows ==
    { OhRow("span", D_1_15, "House", TRUE, <<"Introduced">>),
      OhRow("span", D_2_1, "House", TRUE, <<"Passed">>),
      OhRow("span", D_3_1, "Senate", TRUE, <<"Passed">>),
      OhRow("span", D_4_1, "", TRUE, OhSignedText),
      OhRow("span", D_5_1, "", TRUE, OhSignedText),
      OhRow("span", D_4_1, "", TRUE, <<"Effective">>),
      OhRow("span", D_5_1, "", TRUE, <<"Effective">>),
      OhRow("span", D_3_1, "House", TRUE, <<"Vetoed">>),
      OhRow("none", <<>>, "", TRUE, OhSignedText),
      OhRow("nospan", <<>>, "", TRUE, <<"Effective">>),
      OhRow("span", D_2_1, "House", FALSE, <<>>) }

\* status_info is built; the page is fetched and the table looked up
OhBegin ==
    /\ pc = "start"
    /\ result' = OhStatusInfo
    /\ i' = 1
    /\ pc' = IF arg.page = "rows" THEN "loop" ELSE "done"
    /\ UNCHANGED <<billno, page, rows, out, cosponsors, date, pw, href, recovered,
                   callervars, mainvars, arg>>

\* one iteration of "for row in rows"
OhStep ==
    /\ pc = "loop"
    /\ i <= Len(arg.rows)
    /\ result' = OhMapRow(result, arg.rows[i], arg.type)
    /\ i' = i + 1
    /\ UNCHANGED <<billno, page, pc, rows, out, cosponsors, date, pw, href, recovered,
                   callervars, mainvars, arg>>

\* return status_info
OhReturn ==
    /\ pc = "loop"
    /\ i > Len(arg.rows)
    /\ pc' = "done"
    /\ UNCHANGED <<billno, page, rows, i, out, cosponsors, date, pw, href, recovered,
                   callervars, mainvars, purevars>>

OhInit ==
    /\ billno = <<>>
    /\ page = [kind |-> "none", trs |-> <<>>]
    /\ pc = "start"
    /\ rows = <<>>
    /\ i = 1
    /\ out = [k \in Keys |-> <<>>]
    /\ cosponsors = <<>>
    /\ date = <<>>
    /\ pw = PwIdle
    /\ href = <<>>
    /\ recovered = <<>>
    /\ NoCaller
    /\ scraper = "ohio_scraper_good"
    /\ sessions = <<>> /\ ga = 0 /\ ga_links = <<>> /\ seen_bills = {}
    /\ collected = <<>> /\ phase = "" /\ csv = <<>> /\ failed_urls = {}
    /\ \/ arg \in [page : {"rows"}, type : {"HB", "SB"}, rows : SeqsUpTo(OhRows, MaxLines)]
       \/ arg \in [page : {"no_table", "no_tbody", "error"}, type : {"HB", "SB"}, rows : {<<>>}]
    /\ result = <<>>

OhNext ==
    \/ OhBegin
    \/ OhStep
    \/ OhReturn

SpecOh == OhInit /\ [][OhNext]_vars

\* the rows read so far whose action text selects branch b
OhRead(b) ==
    {k \in 1..(i - 1) :
        /\ OhClassified(arg.rows[k])
        /\ OhBranch(arg.rows[k].chamber, Strip(arg.rows[k].action)) = b}

\* C21: effective_date and the enacted flag and date are those of the first
\* status row matching their predicate; a later matching row changes nothing.
C21_OhioFirstMatch ==
    pc \in {"loop", "done"} =>
        /\ OhRead("effective") # {} =>
               result.effective_date = arg.rows[MinOf(OhRead("effective"))].date
        /\ OhRead("signed") # {} =>
               /\ result.enacted = Y
               /\ result.enacted_date = arg.rows[MinOf(OhRead("signed"))].date

\* what the loop does instead: the last matching row read gives the dates
C21_OhioLastMatch ==
    pc \in {"loop", "done"} =>
        /\ result.effective_date =
               IF OhRead("effective") = {} THEN <<>>
               ELSE arg.rows[MaxOf(OhRead("effective"))].date
        /\ result.enacted_date =
               IF OhRead("signed") = {} THEN <<>>
               ELSE arg.rows[MaxOf(OhRead("signed"))].date

\* the rows read so far that have an action cell whose text selects branch b,
\* with or without a date
OhTextRead(b) ==
    {k \in 1..(i - 1) :
        /\ arg.rows[k].action_cell
        /\ OhBranch(arg.rows[k].chamber, Strip(arg.rows[k].action)) = b}

\* C22: a row without a date but with action text is still classified, with
\* an empty date: a dateless "signed by the governor" row sets the flag.
C22_DatelessRowClassified ==
    (pc \in {"loop", "done"} /\ OhTextRead("signed") # {}) => result.enacted = Y

\* what the loop does instead: only rows with a date cell are classified
C22_DatelessRowDropped ==
    pc \in {"loop", "done"} => (result.enacted = Y <=> OhRead("signed") # {})

(***************************************************************************)
(* Brute-force probing of bill numbers of one type: enumerate_and_collect  *)
(* (Illinois) and enumerate_bill_links_bruteforce (Iowa).                  *)
(***************************************************************************)
ProbeScripts == {"illinois_scraper_oldGA_test", "foroldGAs"}

\* what probing one number finds: a page of a bill, nothing (404 or a failed
\* request), or for Iowa a page that is_valid_billbook rejects
ProbeOutcomes(script) ==
    IF script = "foroldGAs" THEN {"exists", "missing", "invalid"} ELSE {"exists", "missing"}

\* saw_any_existing / hits, consecutive_misses / misses, and the results
ProbeLocals == [hits |-> 0, misses |-> 0, found |-> <<>>, stopped |-> ""]

\* a faulty variant of ProbeHit: the miss streak survives an existing page
ProbeHit_no_reset(r, n) ==
    [r EXCEPT !.hits = r.hits + 1, !.found = Append(r.found, n)]

\* saw_any_existing = True; consecutive_misses = 0  /  hits += 1; misses = 0
ProbeHit(r, n) ==
    [r EXCEPT !.hits = r.hits + 1, !.misses = 0, !.found = Append(r.found, n)]

\* a miss: Illinois counts it only after an existing page, Iowa always; both
\* break once a page has existed and the count reaches the limit
ProbeMiss(script, r, limit) ==
    LET m == IF script = "foroldGAs" \/ r.hits > 0 THEN r.misses + 1 ELSE r.misses
    IN  [r EXCEPT !.misses = m,
                  !.stopped = IF r.hits > 0 /\ m >= limit THEN "break" ELSE ""]

\* the locals are initialised
ProbeBegin ==
    /\ pc = "start"
    /\ result' = ProbeLocals
    /\ i' = 1
    /\ pc' = "probe"
    /\ UNCHANGED <<billno, page, rows, out, cosponsors, date, pw, href, recovered,
                   callervars, mainvars, arg>>

\* one iteration of "for n in range(1, max + 1)": the number is probed
ProbeStep ==
    /\ pc = "probe"
    /\ i <= arg.max_docnum
    /\ LET r == IF arg.pages[i] = "exists" THEN ProbeHit(result, i)
                ELSE ProbeMiss(scraper, result, arg.stop_misses)
       IN  /\ result' = r
           /\ pc' = IF r.stopped = "break" THEN "done" ELSE "probe"
    /\ i' = i + 1
    /\ UNCHANGED <<billno, page, rows, out, cosponsors, date, pw, href, recovered,
                   callervars, mainvars, arg>>

\* the range is exhausted
ProbeExhausted ==
    /\ pc = "probe"
    /\ i > arg.max_docnum
    /\ result' = [result EXCEPT !.stopped = "exhausted"]
    /\ pc' = "done"
    /\ UNCHANGED <<billno, page, rows, i, out, cosponsors, date, pw, href, recovered,
                   callervars, mainvars, arg>>

ProbeInit ==
    /\ billno = <<>>
    /\ page = [kind |-> "none", trs |-> <<>>]
    /\ pc = "start"
    /\ rows = <<>>
    /\ i = 1
    /\ out = [k \in Keys |-> <<>>]
    /\ cosponsors = <<>>
    /\ date = <<>>
    /\ pw = PwIdle
    /\ href = <<>>
    /\ recovered = <<>>
    /\ NoCaller
    /\ scraper \in ProbeScripts
    /\ sessions = <<>> /\ ga = 0 /\ ga_links = <<>> /\ seen_bills = {}
    /\ collected = <<>> /\ phase = "" /\ csv = <<>> /\ failed_urls = {}
    /\ \E m \in 1..MaxDocnum :
          arg \in [max_docnum : {m}, stop_misses : 1..MaxStop,
                   pages : [1..m -> ProbeOutcomes(scraper)]]
    /\ result = <<>>

ProbeNext ==
    \/ ProbeBegin
    \/ ProbeStep
    \/ ProbeExhausted

SpecProbe == ProbeInit /\ [][ProbeNext]_vars

\* the loop is a sequential program: it takes its next step
SpecProbeFair == SpecProbe /\ WF_vars(ProbeNext)

\* the numbers probed so far, those that existed, and the number of misses
\* since the last existing page
Probed == 1..(i - 1)
Existing == {k \in Probed : arg.pages[k] = "exists"}
MissStreak == IF Existing = {} THEN 0 ELSE (i - 1) - MaxOf(Existing)

\* C26: the probe never stops early before a number has existed; after one
\* has, it stops exactly when the streak of misses since the last existing
\* page reaches the configured limit; it never probes beyond the upper
\* bound, and it terminates.
C26_ProbeStops ==
    /\ [](pc \in {"probe", "done"} =>
             /\ Probed \subseteq 1..arg.max_docnum
             /\ pc = "probe" => (Existing = {} \/ MissStreak < arg.stop_misses)
             /\ (pc = "done" /\ result.stopped = "break") =>
                    (Existing # {} /\ MissStreak = arg.stop_misses)
             /\ (pc = "done" /\ result.stopped = "exhausted") =>
                    /\ i - 1 = arg.max_docnum
                    /\ Existing = {} \/ MissStreak < arg.stop_misses)
    /\ <>(pc = "done")

\* a miss before the first existing page, then a streak cut by an existing
\* page, then the stop after two misses in a row, short of the upper bound
C26_Witness ==
    /\ pc = "done"
    /\ result.stopped = "break"
    /\ arg.stop_misses = 2
    /\ arg.max_docnum = 7
    /\ arg.pages[1] # "exists"
    /\ Existing = {2, 4}
    /\ i - 1 = 6

(***************************************************************************)
(* enrich_from_bill_status of phase2test: the candidate sources in turn.   *)
(***************************************************************************)
\* the (kind, url) list: the link resolved from the Full-Text page when
\* there is one, then the urls of each candidate builder
EnrichUrls(resolved) ==
    (IF resolved THEN <<"resolved">> ELSE <<>>)
        \o <<"ftp_html", "ftp_html">> \o <<"ftp_xml">>
        \o <<"asp_gaid", "asp_gaid", "asp_gaid">> \o <<"asp_misc", "asp_misc">>

\* what a candidate yields: fetch_text returns nothing ("failed"), or a text
\* whose parsed record has every field empty ("nothing") or not ("data")
EnrichOutcomes == {"failed", "nothing", "data"}

\* a faulty variant of GotContent: any fetched candidate is returned
GotContent_fetched(outcome) == outcome # "failed"

\* text fetched and any(data.values())
GotContent(outcome) == outcome = "data"

\* the url list is built
EnrichBegin ==
    /\ pc = "start"
    /\ result' = [urls |-> EnrichUrls(arg.resolved), fetched |-> <<>>, data |-> 0]
    /\ i' = 1
    /\ pc' = "fetch"
    /\ UNCHANGED <<billno, page, rows, out, cosponsors, date, pw, href, recovered,
                   callervars, mainvars, arg>>

\* one iteration of "for kind, url in urls": fetch, parse, return on content;
\* data is the position of the candidate whose parse is returned
EnrichFetch ==
    /\ pc = "fetch"
    /\ i <= Len(result.urls)
    /\ IF GotContent(arg.outcomes[i])
       THEN /\ result' = [result EXCEPT !.fetched = Append(@, i), !.data = i]
            /\ pc' = "done"
       ELSE /\ result' = [result EXCEPT !.fetched = Append(@, i)]
            /\ pc' = pc
    /\ i' = i + 1
    /\ UNCHANGED <<billno, page, rows, out, cosponsors, date, pw, href, recovered,
                   callervars, mainvars, arg>>

\* every candidate was tried: the all-empty record is returned
EnrichMiss ==
    /\ pc = "fetch"
    /\ i > Len(result.urls)
    /\ pc' = "done"
    /\ UNCHANGED <<billno, page, rows, i, out, cosponsors, date, pw, href, recovered,
                   callervars, mainvars, purevars>>

EnrichInit ==
    /\ billno = <<>>
    /\ page = [kind |-> "none", trs |-> <<>>]
    /\ pc = "start"
    /\ rows = <<>>
    /\ i = 1
    /\ out = [k \in Keys |-> <<>>]
    /\ cosponsors = <<>>
    /\ date = <<>>
    /\ pw = PwIdle
    /\ href = <<>>
    /\ recovered = <<>>
    /\ NoCaller
    /\ scraper = "phase2test"
    /\ sessions = <<>> /\ ga = 0 /\ ga_links = <<>> /\ seen_bills = {}
    /\ collected = <<>> /\ phase = "" /\ csv = <<>> /\ failed_urls = {}
    /\ \E r \in BOOLEAN :
          arg \in [resolved : {r}, outcomes : [1..Len(EnrichUrls(r)) -> EnrichOutcomes]]
    /\ result = <<>>

EnrichNext ==
    \/ EnrichBegin
    \/ EnrichFetch
    \/ EnrichMiss

SpecEnrich == EnrichInit /\ [][EnrichNext]_vars

\* the place of a kind in the documented priority
KindRank(kind) ==
    CASE kind = "resolved" -> 1 [] kind = "ftp_html" -> 2 [] kind = "ftp_xml" -> 3
      [] kind = "asp_gaid" -> 4 [] kind = "asp_misc" -> 5

\* the candidates with a fetched text whose record has a non-empty field
Usable == {k \in 1..Len(arg.outcomes) : arg.outcomes[k] = "data"}

\* C27: the candidates are fetched in the order resolved link, FTP HTML,
\* FTP XML, ASP with GAID, other ASP; the parse of the first candidate that
\* is fetched and has a non-empty field is returned and nothing is fetched
\* after it; the all-empty record is returned only when every candidate
\* failed or parsed to nothing.
C27_FirstUsableSource ==
    /\ [](pc \in {"fetch", "done"} =>
             /\ \A k \in 1..Len(result.fetched) :
                    /\ result.fetched[k] = k
                    /\ k > 1 => KindRank(result.urls[k - 1]) <= KindRank(result.urls[k])
             /\ (result.urls[1] = "resolved") = arg.resolved
             /\ pc = "done" =>
                    /\ Usable # {} =>
                           /\ result.data = MinOf(Usable)
                           /\ Len(result.fetched) = MinOf(Usable)
                    /\ Usable = {} =>
                           /\ result.data = 0
                           /\ Len(result.fetched) = Len(result.urls))
    /\ [][pc = "done" => result' = result]_vars

\* the resolved link parses to nothing, the first FTP HTML url fails, the
\* second gives the record; the FTP XML url is not fetched
C27_Witness ==
    /\ pc = "done"
    /\ arg.resolved
    /\ arg.outcomes[1] = "nothing" /\ arg.outcomes[2] = "failed"
    /\ arg.outcomes[3] = "data" /\ arg.outcomes[4] = "data"
    /\ result.data = 3
    /\ result.fetched = <<1, 2, 3>>

(***************************************************************************)
(* OhioLegislatureScraper.check_bill_exists, called for several bills.     *)
(***************************************************************************)
\* the bill urls the calls are made for
BillUrls == {"/legislation/136/sb1", "/legislation/136/hb1"}

\* what one request meets: 200 with a bill page, 200 with a page that is
\* not a bill ("not found" in it, or 1000 characters or fewer), 404, 500,
\* another status, a timeout, another exception
Responses == {"bill", "no_bill_page", "404", "500", "other_status", "timeout", "exception"}

\* the responses the retry branches handle
HardFailures == {"500", "timeout", "exception"}

\* the call in progress: its url and max_retries, the loop's attempt, the
\* requests issued, the hard failures in a row and the value returned
NoCall == [url |-> "", max_retries |-> 0, attempt |-> 0, requests |-> 0, fails |-> 0, ret |-> ""]

\* if bill_url in self.failed_urls: return None
CheckSkipFailed ==
    /\ pc = "idle"
    /\ i < MaxCalls
    /\ \E u \in failed_urls, m \in 1..MaxRetries :
          result' = [NoCall EXCEPT !.url = u, !.max_retries = m, !.ret = "None"]
    /\ i' = i + 1
    /\ UNCHANGED <<billno, page, pc, rows, out, cosponsors, date, pw, href, recovered,
                   callervars, mainvars, arg>>

\* the call enters "for attempt in range(max_retries)"
CheckStart ==
    /\ pc = "idle"
    /\ i < MaxCalls
    /\ \E u \in BillUrls \ failed_urls, m \in 1..MaxRetries :
          result' = [NoCall EXCEPT !.url = u, !.max_retries = m]
    /\ i' = i + 1
    /\ pc' = "attempt"
    /\ UNCHANGED <<billno, page, rows, out, cosponsors, date, pw, href, recovered,
                   callervars, mainvars, arg>>

\* the loop after an attempt that neither returned nor recorded the url
CheckContinue(r, fails) ==
    IF r.attempt + 1 < r.max_retries
    THEN [r EXCEPT !.attempt = @ + 1, !.requests = @ + 1, !.fails = fails]
    ELSE [r EXCEPT !.requests = @ + 1, !.fails = fails, !.ret = "None"]

\* one attempt: the request and the branch its response selects
CheckAttempt ==
    /\ pc = "attempt"
    /\ \E resp \in Responses :
          /\ arg' = resp
          /\ CASE resp = "bill" ->
                    /\ result' = [result EXCEPT !.requests = @ + 1, !.ret = "bill"]
                    /\ UNCHANGED failed_urls
               [] resp = "no_bill_page" ->
                    /\ result' = CheckContinue(result, 0)
                    /\ UNCHANGED failed_urls
               [] resp \in {"404", "other_status"} ->
                    /\ result' = [result EXCEPT !.requests = @ + 1, !.ret = "None"]
                    /\ UNCHANGED failed_urls
               [] resp \in HardFailures ->
                    IF result.attempt < result.max_retries - 1
                    THEN /\ result' = CheckContinue(result, result.fails + 1)
                         /\ UNCHANGED failed_urls
                    ELSE /\ result' = [result EXCEPT !.requests = @ + 1,
                                                     !.fails = @ + 1, !.ret = "None"]
                         /\ failed_urls' = failed_urls \cup {result.url}
    /\ pc' = IF result'.ret = "" THEN "attempt" ELSE "idle"
    /\ UNCHANGED <<billno, page, rows, i, out, cosponsors, date, pw, href, recovered,
                   callervars, scraper, sessions, ga, ga_links, seen_bills, collected, phase,
                   csv>>

CheckInit ==
    /\ billno = <<>>
    /\ page = [kind |-> "none", trs |-> <<>>]
    /\ pc = "idle"
    /\ rows = <<>>
    /\ i = 0
    /\ out = [k \in Keys |-> <<>>]
    /\ cosponsors = <<>>
    /\ date = <<>>
    /\ pw = PwIdle
    /\ href = <<>>
    /\ recovered = <<>>
    /\ NoCaller
    /\ scraper = "ohio_scraper_good"
    /\ sessions = <<>> /\ ga = 0 /\ ga_links = <<>> /\ seen_bills = {}
    /\ collected = <<>> /\ phase = "" /\ csv = <<>> /\ failed_urls = {}
    /\ arg = ""
    /\ result = NoCall

CheckNext ==
    \/ CheckSkipFailed
    \/ CheckStart
    \/ CheckAttempt

SpecCheck == CheckInit /\ [][CheckNext]_vars

\* a request is issued by the step
RequestIssued == pc = "attempt" /\ result'.requests = result.requests + 1

\* the parts of C28 that do not depend on what counts as a failed attempt
C28_RetryBounds ==
    /\ [](result.requests <= result.max_retries)
    /\ [][(RequestIssued /\ arg' = "404") =>
              (result'.ret = "None" /\ failed_urls' = failed_urls)]_vars
    /\ [][failed_urls \subseteq failed_urls']_vars
    /\ [][RequestIssued => result.url \notin failed_urls]_vars
    /\ [](result.url \in failed_urls => result.ret = "None")

\* C28: a call issues at most max_retries requests; a 404 returns None at
\* once and records nothing; a url enters failed_urls only after
\* max_retries failed attempts in a row (500, timeout, exception);
\* failed_urls only grows and no request is issued for a url in it.
C28_FailedAfterMaxRetries ==
    /\ C28_RetryBounds
    /\ [][failed_urls' # failed_urls =>
              /\ failed_urls' = failed_urls \cup {result.url}
              /\ result'.fails = result.max_retries]_vars

\* what the loop does instead: the url is recorded when the last of the
\* max_retries attempts is a hard failure, whatever the earlier ones met
C28_FailedOnLastAttempt ==
    /\ C28_RetryBounds
    /\ [][failed_urls' # failed_urls =>
              /\ failed_urls' = failed_urls \cup {result.url}
              /\ result'.requests = result.max_retries
              /\ arg' \in HardFailures
              /\ result'.fails >= 1]_vars

====
